---- MODULE Spec2Model ----
(***************************************************************************)
(* Model of the peer-wire engine and piece dispatcher of                   *)
(* rusty-bittorrent-client (src/src/tracker.rs), of its bencode decoder    *)
(* (src/src/bencode.rs), of the compact peer list (src/src/peers.rs) and   *)
(* of the torrent metadata (src/src/torrent.rs).                           *)
(*                                                                         *)
(* Byte strings are kept symbolically, as sequences of extents: an extent  *)
(* [k, src, n] stands for n consecutive bytes, of kind                     *)
(*   "file"  the bytes src .. src+n-1 of the file the torrent describes,   *)
(*   "junk"  bytes that differ from the file's bytes,                      *)
(*   "hdr"   the index/begin header bytes of a piece message,              *)
(*   "zero"  the bytes of a hole of the output file.                       *)
(* Adjacent extents that continue each other are merged, so two byte       *)
(* strings are equal exactly when their extent sequences are equal.        *)
(***************************************************************************)
EXTENDS Integers, Sequences, FiniteSets, TLC

\* ------------------------------------------------------------ constants
HANDSHAKE_BYTE_SIZE == 68
BLOCK_SIZE == 16384
MAX_PAYLOAD_LEN == 1048576
RESULT_CHANNEL_CAPACITY == 10

\* ------------------------------------------------------------ bounds
MaxPeers == 2

\* ------------------------------------------------------------ byte strings
Ext(k, src, n) == IF n <= 0 THEN <<>> ELSE <<[k |-> k, src |-> src, n |-> n]>>

Mergeable(x, y) == x.k = y.k /\ (x.k = "file" => y.src = x.src + x.n)

Cat(a, b) ==
  IF a = <<>> THEN b
  ELSE IF b = <<>> THEN a
  ELSE LET x == a[Len(a)]
           y == b[1]
       IN  IF Mergeable(x, y)
           THEN SubSeq(a, 1, Len(a) - 1) \o <<[x EXCEPT !.n = x.n + y.n]>> \o Tail(b)
           ELSE a \o b

RECURSIVE ByteLen(_)
ByteLen(d) == IF d = <<>> THEN 0 ELSE d[1].n + ByteLen(Tail(d))

RECURSIVE TakeB(_, _)
TakeB(d, cnt) ==
  IF cnt <= 0 \/ d = <<>> THEN <<>>
  ELSE IF d[1].n <= cnt THEN <<d[1]>> \o TakeB(Tail(d), cnt - d[1].n)
  ELSE <<[d[1] EXCEPT !.n = cnt]>>

RECURSIVE DropB(_, _)
DropB(d, cnt) ==
  IF d = <<>> THEN <<>>
  ELSE IF cnt <= 0 THEN d
  ELSE IF d[1].n <= cnt THEN DropB(Tail(d), cnt - d[1].n)
  ELSE <<[d[1] EXCEPT !.n = @ - cnt,
                      !.src = IF d[1].k = "file" THEN @ + cnt ELSE @]>> \o Tail(d)

\* ------------------------------------------------------------ torrent
\* Hash::hash, SHA-1 taken as collision free: the digest determines the bytes.
Hash(data) == [sha1 |-> data]

\* DownloadRequest::last_piece_len
last_piece_len(length, piece_length) == ((length - 1) % piece_length) + 1

\* The bytes of piece idx of the file the torrent describes.
PieceBytes(dr, idx) ==
  Ext("file", idx * dr.piece_length,
      IF idx + 1 = dr.n THEN last_piece_len(dr.length, dr.piece_length)
      ELSE dr.piece_length)

\* DownloadRequest: length, piece_length and the piece hashes (pieces[i+1] is
\* the hash of piece i).
DownloadRequest(n, piece_length, last) ==
  LET dr0 == [n |-> n, piece_length |-> piece_length,
              length |-> (n - 1) * piece_length + last]
  IN  [n |-> n, piece_length |-> piece_length, length |-> dr0.length,
       pieces |-> [i \in 1..n |-> Hash(PieceBytes(dr0, i - 1))]]

\* The torrents downloaded: one piece of two full blocks (the length is a
\* multiple of the piece length), and a piece of two blocks followed by a last
\* piece shorter than a block.
Torrents ==
  { DownloadRequest(1, 2 * BLOCK_SIZE, 2 * BLOCK_SIZE),
    DownloadRequest(2, 2 * BLOCK_SIZE, 6241) }

\* ------------------------------------------------------------ wire framing
\* PeerMessageReader::payload_len
payload_len(len_prefix) == IF len_prefix > 0 THEN len_prefix - 1 ELSE 0

\* PiecePayload::from_bytes: the slices b[..4] and b[4..8] panic on a payload
\* shorter than 8 bytes; the block is cut at BLOCK_SIZE.
PiecePayload_from_bytes(b) ==
  IF ByteLen(b) < 8 THEN [kind |-> "Panic", block |-> <<>>]
  ELSE LET block_rest == DropB(b, 8)
       IN  [kind |-> "Piece",
            block |-> IF ByteLen(block_rest) < BLOCK_SIZE THEN block_rest
                      ELSE TakeB(block_rest, BLOCK_SIZE)]

\* RequestPayload::from_bytes
RequestPayload_from_bytes(b) == [kind |-> "Err", block |-> <<>>]

\* Variant: the arm `2 => Ok(Self::Interested)` is missing.
PeerMessage_from_bytes_no_interested(ident, payload) ==
  CASE ident = 1 -> [kind |-> "Unchoke", block |-> <<>>]
    [] ident = 5 -> [kind |-> "Bitfield", block |-> <<>>]
    [] ident = 6 -> RequestPayload_from_bytes(payload)
    [] ident = 7 -> PiecePayload_from_bytes(payload)
    [] OTHER -> [kind |-> "Err", block |-> <<>>]

\* PeerMessage::from_bytes
PeerMessage_from_bytes(ident, payload) ==
  CASE ident = 1 -> [kind |-> "Unchoke", block |-> <<>>]
    [] ident = 2 -> [kind |-> "Interested", block |-> <<>>]
    [] ident = 5 -> [kind |-> "Bitfield", block |-> <<>>]
    [] ident = 6 -> RequestPayload_from_bytes(payload)
    [] ident = 7 -> PiecePayload_from_bytes(payload)
    [] OTHER -> [kind |-> "Err", block |-> <<>>]

\* Variant: a payload of exactly MAX_PAYLOAD_LEN bytes is refused too.
TooLarge_inclusive(pl) == pl >= MAX_PAYLOAD_LEN

\* if payload_len > MAX_PAYLOAD_LEN { bail!(..) }
TooLarge(pl) == pl > MAX_PAYLOAD_LEN

\* PeerMessageReader::from_stream on the five meta bytes (length prefix and the
\* byte after it) and the bytes the stream holds after them: the message, and
\* the number of payload bytes read from the stream. read_exact fails when the
\* stream ends before payload_len bytes.
from_stream(len_prefix, ident, payload) ==
  LET pl == payload_len(len_prefix)
  IN  IF TooLarge(pl) THEN [kind |-> "Err", block |-> <<>>, read |-> 0]
      ELSE IF ByteLen(payload) < pl
      THEN [kind |-> "Err", block |-> <<>>, read |-> ByteLen(payload)]
      ELSE LET pm == PeerMessage_from_bytes(ident, TakeB(payload, pl))
           IN  [kind |-> pm.kind, block |-> pm.block, read |-> pl]

\* ------------------------------------------------------------ block requests
\* Variant: every request asks for a whole block.
RequestPayloadGen_next_whole_blocks(progress, piece_len, piece_idx) ==
  IF progress >= piece_len
  THEN [some |-> FALSE, index |-> 0, begin |-> 0, length |-> 0, progress |-> progress]
  ELSE [some |-> TRUE, index |-> piece_idx, begin |-> progress, length |-> BLOCK_SIZE,
        progress |-> progress + BLOCK_SIZE]

\* RequestPayloadGen::next: the request (or None) and the new progress.
RequestPayloadGen_next(progress, piece_len, piece_idx) ==
  IF progress >= piece_len
  THEN [some |-> FALSE, index |-> 0, begin |-> 0, length |-> 0, progress |-> progress]
  ELSE LET next_progress == progress + BLOCK_SIZE
           len == IF next_progress <= piece_len THEN BLOCK_SIZE
                  ELSE piece_len - (next_progress - BLOCK_SIZE)
       IN  [some |-> TRUE, index |-> piece_idx, begin |-> progress, length |-> len,
            progress |-> next_progress]

\* ------------------------------------------------------------ handshake
\* PROTOCOL, "BitTorrent protocol"
PROTOCOL == <<66, 105, 116, 84, 111, 114, 114, 101, 110, 116, 32,
              112, 114, 111, 116, 111, 99, 111, 108>>

\* Handshake::to_bytes; byte i of the code is element i + 1 here.
Handshake_to_bytes(info_hash, peer_id) ==
  [i \in 1..HANDSHAKE_BYTE_SIZE |->
     IF i = 1 THEN Len(PROTOCOL)
     ELSE IF i <= 20 THEN PROTOCOL[i - 1]
     ELSE IF i <= 28 THEN 0
     ELSE IF i <= 48 THEN info_hash[i - 28]
     ELSE peer_id[i - 48]]

\* Variant: the two fields are cut one byte early.
Handshake_from_bytes_one_early(data) ==
  [ok |-> TRUE,
   info_hash |-> SubSeq(data, 28, 47),
   peer_id |-> SubSeq(data, 48, 67)]

\* Handshake::from_bytes: the info-hash and the peer id are cut out of the 68
\* bytes; the result is always Ok.
Handshake_from_bytes(data) ==
  [ok |-> TRUE,
   info_hash |-> SubSeq(data, 29, 48),
   peer_id |-> SubSeq(data, 49, 68)]

\* The info-hash of the torrent, the client's peer id and a remote peer id.
InfoHash == [i \in 1..20 |-> 160 + i]
ClientId == [i \in 1..20 |-> 65 + i]
RemoteId == [i \in 1..20 |-> 97 + i]

\* The 68-byte answers a remote peer may give: the right one, and ones that
\* differ from it in one byte of the protocol string or of the info-hash.
RemoteHandshakes ==
  LET good == Handshake_to_bytes(InfoHash, RemoteId)
  IN  {good} \cup {[good EXCEPT ![i] = (@ + 1) % 256] : i \in {2, 29, 48}}

\* ------------------------------------------------------------ state
VARIABLES
  dr,          \* download_req: n, piece_length, length, pieces
  npeers,      \* peers.len(); worker w runs the session of peer w
  dpc,         \* where download_file is
  idx,         \* index of the enqueue loop of download_file
  join_idx,    \* index of the loop over the join handles
  jobq,        \* the job channel's queue
  resq,        \* the result channel's queue
  file,        \* the bytes of the output file
  writes,      \* history: the write_full_piece calls that succeeded, in order
  pc,          \* where each worker task is
  job,         \* the Piece a worker holds
  piece_data,  \* download_piece: piece_data
  progress,    \* RequestPayloadGen.progress of the piece being downloaded
  cur_req,     \* the request written last
  buf,         \* handshake: the 68 bytes read from the peer
  wire,        \* history: what a session wrote to and decoded from its socket
  cause,       \* history: the step at which a worker failed
  taken,       \* history: the piece indexes each worker received as jobs
  rd,          \* a PeerMessageReader on its own: the bytes given and the result
  st,          \* a PeerMessageReader on a stream of bytes: the frames sent, the
               \* bytes consumed and the reads done
  g,           \* a RequestPayloadGen on its own and what next() returned
  quiet,       \* the read at which each peer stops sending bytes, or "never"
  piece_idx,   \* perform_download_piece: the piece index asked for
  call         \* a function of the codecs on its own (its name, its input
               \* and what it returned), or download_piece on its own with
               \* its generator task

vars == <<dr, npeers, dpc, idx, join_idx, jobq, resq, file, writes,
          pc, job, piece_data, progress, cur_req, buf, wire, cause, taken, rd,
          st, g, quiet, piece_idx, call>>

cvars == <<dr, npeers, rd, st, g, quiet, piece_idx, call>>

dvars == <<dpc, idx, join_idx, file, writes>>
wvars == <<pc, job, piece_data, progress, cur_req, buf, wire, cause, taken>>

Workers == 1..npeers

NoPiece == [hash |-> Hash(<<>>), idx |-> -1, len |-> 0]
NoRequest == [some |-> FALSE, index |-> 0, begin |-> 0, length |-> 0, progress |-> 0]
NoBuf == <<>>
NoMessage == [kind |-> "none", block |-> <<>>]
NoRead == [len |-> 0, id |-> 0, payload |-> <<>>, msg |-> NoMessage]
NoStream == [frames |-> <<>>, pos |-> 0, reads |-> <<>>]
NoGen == [piece_len |-> 0, piece_idx |-> 0, progress |-> 0, calls |-> <<>>]
NoCall == [fn |-> "none"]

Exited == {"exit_ok", "exit_err", "panicked"}

\* A worker task has ended: its clones of job_rx and result_tx are dropped.
Gone(w) == pc[w] \in Exited
AllWorkersGone == \A w \in Workers : Gone(w)

Returned == dpc \in {"ok", "err"}

\* Variant: download_file does not close job_tx, which lives until it returns.
JobChannelClosed_not_closed == Returned \/ AllWorkersGone

\* The job channel is closed once job_tx.close() ran or job_tx was dropped, and
\* once the last clone of job_rx is dropped.
JobChannelClosed == dpc # "enqueue" \/ AllWorkersGone

\* The peer of w has stopped sending bytes at the read the session is in: the
\* connection stays open and the read does not return. No read has a timeout.
Silent(w) == quiet[w] = pc[w]

\* result_rx lives until download_file returns.
ResultReceiverDropped == Returned

\* download_file has made the channels and spawned a worker task per peer.
DownloadStart ==
  /\ dpc = "enqueue"
  /\ idx = 0
  /\ join_idx = 1
  /\ jobq = <<>>
  /\ resq = <<>>
  /\ file = <<>>
  /\ writes = <<>>
  /\ pc = [w \in Workers |-> "connect"]
  /\ job = [w \in Workers |-> NoPiece]
  /\ piece_data = [w \in Workers |-> <<>>]
  /\ progress = [w \in Workers |-> 0]
  /\ cur_req = [w \in Workers |-> NoRequest]
  /\ buf = [w \in Workers |-> NoBuf]
  /\ wire = [w \in Workers |-> <<>>]
  /\ cause = [w \in Workers |-> "none"]
  /\ taken = [w \in Workers |-> {}]
  /\ rd = NoRead
  /\ st = NoStream
  /\ g = NoGen
  /\ call = NoCall
  /\ piece_idx = 0

Init ==
  /\ dr \in Torrents
  /\ npeers \in 0..MaxPeers
  /\ quiet = [w \in Workers |-> "never"]
  /\ DownloadStart

\* ------------------------------------------------------------ peers
Frame(len_prefix, ident, payload) ==
  [len |-> len_prefix, id |-> ident, payload |-> payload]

\* What a peer may put on the stream when the session reads a message: the
\* length prefix, the byte after it and the payload_len bytes after that
\* (none when the length is refused before the payload is read).
CommonFrames ==
  { Frame(2, 5, Ext("junk", 0, 1)),               \* bitfield
    Frame(0, 5, <<>>),                            \* length 0, then a byte 5
    Frame(1, 1, <<>>),                            \* unchoke
    Frame(1, 0, <<>>),                            \* choke
    Frame(5, 7, Ext("hdr", 0, 4)),                \* piece cut inside its header
    Frame(MAX_PAYLOAD_LEN + 2, 7, <<>>) }         \* piece beyond the payload cap

\* The answers to the request r of a session for the torrent d: the block
\* asked for (as far as the file has the bytes), as many bytes as asked for
\* that are not the file's, and a block of another length than asked for (one
\* byte).
PieceFrames(d, r) ==
  IF ~r.some THEN {}
  ELSE LET off == r.index * d.piece_length + r.begin
           left == IF off < d.length THEN d.length - off ELSE 0
           has == IF r.length < left THEN r.length ELSE left
       IN  { Frame(9 + has, 7, Cat(Ext("hdr", 0, 8), Ext("file", off, has))),
             Frame(9 + r.length, 7, Cat(Ext("hdr", 0, 8), Ext("junk", 0, r.length))),
             Frame(9 + 1, 7, Cat(Ext("hdr", 0, 8), Ext("junk", 0, 1))) }

Frames(w) == CommonFrames \cup PieceFrames(dr, cur_req[w])

\* ------------------------------------------------------------ worker tasks
\* Variant: setup_peer sends interested before it reads the bitfield.
SetupOrder_interested_first ==
  <<"connect", "hs_send", "hs_recv", "int_send", "bf_recv", "un_recv", "ready">>

\* setup_peer: the order of its steps, and "ready" once it returned the stream.
SetupOrder ==
  <<"connect", "hs_send", "hs_recv", "bf_recv", "int_send", "un_recv", "ready">>

StepAfter(step) ==
  SetupOrder[(CHOOSE i \in 1..Len(SetupOrder) : SetupOrder[i] = step) + 1]

\* match msg { PeerMessage::Bitfield => {} , other => bail!(..) }
IsBitfield(msg) == msg.kind = "Bitfield"

\* match msg { PeerMessage::Unchoke => {} , other => bail!(..) }
IsUnchoke(msg) == msg.kind = "Unchoke"

\* match msg { PeerMessage::Piece(piece) => piece, other => bail!(..) }
IsPiece(msg) == msg.kind = "Piece"

\* Variant: the SHA-1 check is left out.
HashMatches_unchecked(data, hash) == TRUE

\* if downloaded_piece_hash != piece.hash { bail!(..) }
HashMatches(data, hash) == Hash(data) = hash

\* Variant: a broadcast channel, every receiver sees every job.
JobsAfterRecv_broadcast(q) == q

\* job_rx.recv(): the channel hands a message to one receiver and drops it.
JobsAfterRecv(q) == Tail(q)

\* Variant: the failed job is sent back into the job channel.
JobsAfterFailure_requeue(q, j) == Append(q, j)

\* download_piece(job, ..).await?: the job is dropped with the error.
JobsAfterFailure(q, j) == q

\* A worker task ends with Err(e) (the ? operator) or, on a panic, unwinds.
Fail(w, why) ==
  /\ pc' = [pc EXCEPT ![w] = "exit_err"]
  /\ cause' = [cause EXCEPT ![w] = why]

Panic(w, why) ==
  /\ pc' = [pc EXCEPT ![w] = "panicked"]
  /\ cause' = [cause EXCEPT ![w] = why]

Log(w, dir, what) == wire' = [wire EXCEPT ![w] = Append(@, <<dir, what>>)]

\* TcpStream::connect(..).await?
Connect(w) ==
  /\ pc[w] = "connect"
  /\ \/ pc' = [pc EXCEPT ![w] = StepAfter("connect")] /\ UNCHANGED cause
     \/ Fail(w, "setup")
  /\ UNCHANGED <<cvars, dvars, jobq, resq, job, piece_data, progress,
                 cur_req, buf, wire, taken>>

\* handshake: stream.write_all(&bytes).await?
HandshakeSend(w) ==
  /\ pc[w] = "hs_send"
  /\ \/ /\ pc' = [pc EXCEPT ![w] = StepAfter("hs_send")]
        /\ Log(w, "out", "handshake")
        /\ UNCHANGED cause
     \/ Fail(w, "setup") /\ UNCHANGED wire
  /\ UNCHANGED <<cvars, dvars, jobq, resq, job, piece_data, progress,
                 cur_req, buf, taken>>

\* handshake: the read loop until 68 bytes are there, then Handshake::from_bytes.
HandshakeRecv(w) ==
  /\ pc[w] = "hs_recv"
  /\ ~Silent(w)
  /\ \/ \E data \in RemoteHandshakes :
          /\ buf' = [buf EXCEPT ![w] = data]
          /\ Log(w, "in", "handshake")
          /\ IF Handshake_from_bytes(data).ok
             THEN pc' = [pc EXCEPT ![w] = StepAfter("hs_recv")] /\ UNCHANGED cause
             ELSE Fail(w, "setup")
     \/ \* the connection is closed before the handshake was fully read
        Fail(w, "setup") /\ UNCHANGED <<buf, wire>>
  /\ UNCHANGED <<cvars, dvars, jobq, resq, job, piece_data, progress,
                 cur_req, taken>>

\* setup_peer: reader.from_stream(..).await? and the match on Bitfield.
ReadBitfield(w) ==
  /\ pc[w] = "bf_recv"
  /\ ~Silent(w)
  /\ \/ \E f \in Frames(w) :
          LET msg == from_stream(f.len, f.id, f.payload)
          IN  /\ Log(w, "in", msg.kind)
              /\ IF msg.kind = "Panic" THEN Panic(w, "setup")
                 ELSE IF msg.kind = "Err" THEN Fail(w, "setup")
                 ELSE IF IsBitfield(msg)
                 THEN pc' = [pc EXCEPT ![w] = StepAfter("bf_recv")] /\ UNCHANGED cause
                 ELSE Fail(w, "setup")
     \/ Fail(w, "setup") /\ UNCHANGED wire
  /\ buf' = [buf EXCEPT ![w] = NoBuf]
  /\ UNCHANGED <<cvars, dvars, jobq, resq, job, piece_data, progress,
                 cur_req, taken>>

\* setup_peer: stream.write_all(&PeerMessage::Interested.to_bytes()).await?
SendInterested(w) ==
  /\ pc[w] = "int_send"
  /\ \/ /\ pc' = [pc EXCEPT ![w] = StepAfter("int_send")]
        /\ Log(w, "out", "interested")
        /\ UNCHANGED cause
     \/ Fail(w, "setup") /\ UNCHANGED wire
  /\ UNCHANGED <<cvars, dvars, jobq, resq, job, piece_data, progress,
                 cur_req, buf, taken>>

\* setup_peer: reader.from_stream(..).await? and the match on Unchoke.
ReadUnchoke(w) ==
  /\ pc[w] = "un_recv"
  /\ ~Silent(w)
  /\ \/ \E f \in Frames(w) :
          LET msg == from_stream(f.len, f.id, f.payload)
          IN  /\ Log(w, "in", msg.kind)
              /\ IF msg.kind = "Panic" THEN Panic(w, "setup")
                 ELSE IF msg.kind = "Err" THEN Fail(w, "setup")
                 ELSE IF IsUnchoke(msg)
                 THEN pc' = [pc EXCEPT ![w] = StepAfter("un_recv")] /\ UNCHANGED cause
                 ELSE Fail(w, "setup")
     \/ Fail(w, "setup") /\ UNCHANGED wire
  /\ UNCHANGED <<cvars, dvars, jobq, resq, job, piece_data, progress,
                 cur_req, buf, taken>>

\* Variant: recv hands out the job sent last.
NextJob_last(q) == q[Len(q)]

\* job_rx.recv(): the channel hands out the message that was sent first.
NextJob(q) == Head(q)

\* while let Ok(job) = job_rx.recv().await: a job is received.
JobRecv(w) ==
  /\ pc[w] = "ready"
  /\ jobq # <<>>
  /\ job' = [job EXCEPT ![w] = NextJob(jobq)]
  /\ jobq' = JobsAfterRecv(jobq)
  /\ taken' = [taken EXCEPT ![w] = @ \cup {NextJob(jobq).idx}]
  /\ piece_data' = [piece_data EXCEPT ![w] = <<>>]
  /\ progress' = [progress EXCEPT ![w] = 0]
  /\ pc' = [pc EXCEPT ![w] = "request"]
  /\ UNCHANGED <<cvars, dvars, resq, cur_req, buf, wire, cause>>

\* job_rx.recv() fails on the closed and empty channel: the task returns Ok(()).
WorkerExit(w) ==
  /\ pc[w] = "ready"
  /\ jobq = <<>>
  /\ JobChannelClosed
  /\ pc' = [pc EXCEPT ![w] = "exit_ok"]
  /\ UNCHANGED <<cvars, dvars, jobq, resq, job, piece_data, progress,
                 cur_req, buf, wire, cause, taken>>

\* Variant: the next request is written before the answer is read.
StepAfterRequest_pipelined == "request"

\* download_piece: after stream.write_all(&payload) comes reader.from_stream.
StepAfterRequest == "response"

\* download_piece: the next request is written to the stream. The requests
\* come through the channel of RequestQueue::receiver, in the order in which
\* RequestPayloadGen::next made them.
RequestWrite(w) ==
  LET r == RequestPayloadGen_next(progress[w], job[w].len, job[w].idx)
  IN  /\ pc[w] = "request"
      /\ r.some
      /\ \/ /\ pc' = [pc EXCEPT ![w] = StepAfterRequest]
            /\ cur_req' = [cur_req EXCEPT ![w] = r]
            /\ progress' = [progress EXCEPT ![w] = r.progress]
            /\ Log(w, "out", "request")
            /\ UNCHANGED <<cause, jobq, piece_data>>
         \/ /\ Fail(w, "download")
            /\ jobq' = JobsAfterFailure(jobq, job[w])
            /\ piece_data' = [piece_data EXCEPT ![w] = <<>>]
            /\ UNCHANGED <<cur_req, progress, wire>>
      /\ UNCHANGED <<cvars, dvars, resq, job, buf, taken>>

\* download_piece: the answer is read and its block appended to piece_data.
ResponseRead(w) ==
  /\ pc[w] = "response"
  /\ ~Silent(w)
  /\ \/ \E f \in Frames(w) :
          LET msg == from_stream(f.len, f.id, f.payload)
          IN  /\ Log(w, "in", msg.kind)
              /\ IF msg.kind = "Panic"
                 THEN /\ Panic(w, "download")
                      /\ jobq' = JobsAfterFailure(jobq, job[w])
                      /\ piece_data' = [piece_data EXCEPT ![w] = <<>>]
                 ELSE IF msg.kind # "Err" /\ IsPiece(msg)
                 THEN /\ piece_data' = [piece_data EXCEPT ![w] = Cat(@, msg.block)]
                      /\ pc' = [pc EXCEPT ![w] = "request"]
                      /\ UNCHANGED <<cause, jobq>>
                 ELSE /\ Fail(w, "download")
                      /\ jobq' = JobsAfterFailure(jobq, job[w])
                      /\ piece_data' = [piece_data EXCEPT ![w] = <<>>]
     \/ /\ Fail(w, "download")
        /\ jobq' = JobsAfterFailure(jobq, job[w])
        /\ piece_data' = [piece_data EXCEPT ![w] = <<>>]
        /\ UNCHANGED wire
  /\ cur_req' = [cur_req EXCEPT ![w] = NoRequest]
  /\ UNCHANGED <<cvars, dvars, resq, job, progress, buf, taken>>

\* download_piece: after the last request, rx.close() and the SHA-1 check.
VerifyPiece(w) ==
  LET r == RequestPayloadGen_next(progress[w], job[w].len, job[w].idx)
  IN  /\ pc[w] = "request"
      /\ ~r.some
      /\ IF HashMatches(piece_data[w], job[w].hash)
         THEN /\ pc' = [pc EXCEPT ![w] = "send"]
              /\ UNCHANGED <<cause, jobq, piece_data>>
         ELSE /\ Fail(w, "hash")
              /\ jobq' = JobsAfterFailure(jobq, job[w])
              /\ piece_data' = [piece_data EXCEPT ![w] = <<>>]
      /\ UNCHANGED <<cvars, dvars, resq, job, progress, cur_req, buf,
                     wire, taken>>

\* Variant: an unbounded channel.
HasCapacity_unbounded(q) == TRUE

\* mpsc::channel::<FullPiece>(10): send waits while the channel holds 10.
HasCapacity(q) == Len(q) < RESULT_CHANNEL_CAPACITY

\* result_tx.send(full_piece).await?
ResultSend(w) ==
  /\ pc[w] = "send"
  /\ IF ResultReceiverDropped
     THEN /\ Fail(w, "send")
          /\ UNCHANGED resq
     ELSE /\ HasCapacity(resq)
          /\ resq' = Append(resq, [data |-> piece_data[w], piece |-> job[w]])
          /\ pc' = [pc EXCEPT ![w] = "ready"]
          /\ UNCHANGED cause
  /\ piece_data' = [piece_data EXCEPT ![w] = <<>>]
  /\ progress' = [progress EXCEPT ![w] = 0]
  /\ job' = [job EXCEPT ![w] = IF ResultReceiverDropped THEN @ ELSE NoPiece]
  /\ UNCHANGED <<cvars, dvars, jobq, cur_req, buf, wire, taken>>

\* ------------------------------------------------------------ download_file
\* The length of the job of piece i: last_piece_len for the last index.
current_piece_len(i) ==
  IF i + 1 = dr.n THEN last_piece_len(dr.length, dr.piece_length)
  ELSE dr.piece_length

\* Variant: the offset is computed from the length of the piece written.
WriteOffset_own_len(fp, piece_len) == fp.piece.idx * fp.piece.len

\* DownloadingFile::write_full_piece: the offset it seeks to.
WriteOffset(fp, piece_len) == fp.piece.idx * piece_len

\* seek(SeekFrom::Start(off)) and write_all(data) on the bytes f of a file.
WriteAt(f, off, data) ==
  LET flen == ByteLen(f)
      head == Cat(TakeB(f, off), Ext("zero", 0, off - flen))
  IN  Cat(Cat(head, data), DropB(f, off + ByteLen(data)))

\* Variant: a task's error is logged and not returned.
HandleFailed_ignored(w) == FALSE

\* if let Err(e) = handle.await? { bail!(..) }
HandleFailed(w) == pc[w] # "exit_ok"

\* Variant: try_recv, the loop ends as soon as the queue is empty.
SendersDropped_try_recv == TRUE

\* Variant: the result channel counts as closed once one worker task ended.
SendersDropped_first_exit == \E w \in Workers : Gone(w)

\* result_rx.recv() returns None once every clone of result_tx is dropped (and
\* the queue is empty).
SendersDropped == AllWorkersGone

\* Variant: the job channel is as large as the result channel.
JobChannelCapacity_as_results == RESULT_CHANNEL_CAPACITY

\* async_channel::bounded(download_req.pieces.len())
JobChannelCapacity == dr.n

\* The enqueue loop: job_tx.send(piece).await.context(..)?
Enqueue ==
  /\ dpc = "enqueue"
  /\ idx < dr.n
  /\ IF AllWorkersGone
     THEN \* every receiver is dropped: the send fails
          /\ dpc' = "err"
          /\ UNCHANGED <<jobq, idx>>
     ELSE /\ Len(jobq) < JobChannelCapacity
          /\ jobq' = Append(jobq, [hash |-> dr.pieces[idx + 1], idx |-> idx,
                                   len |-> current_piece_len(idx)])
          /\ idx' = idx + 1
          /\ UNCHANGED dpc
  /\ UNCHANGED <<cvars, join_idx, file, writes, resq, wvars>>

\* job_tx.close()
CloseJobs ==
  /\ dpc = "enqueue"
  /\ idx = dr.n
  /\ dpc' = "create"
  /\ UNCHANGED <<cvars, idx, join_idx, file, writes, jobq, resq, wvars>>

\* DownloadingFile::new(piece_len, output_path).await?
CreateFile ==
  /\ dpc = "create"
  /\ \/ dpc' = "drain" /\ file' = <<>>
     \/ dpc' = "err" /\ UNCHANGED file
  /\ UNCHANGED <<cvars, idx, join_idx, writes, jobq, resq, wvars>>

\* while let Some(full_piece) = result_rx.recv().await: write_full_piece(..)?
ResultRecv ==
  /\ dpc = "drain"
  /\ resq # <<>>
  /\ LET fp == Head(resq)
         off == WriteOffset(fp, dr.piece_length)
     IN  \/ /\ file' = WriteAt(file, off, fp.data)
            /\ writes' = Append(writes, [idx |-> fp.piece.idx, at |-> off,
                                         data |-> fp.data])
            /\ UNCHANGED dpc
         \/ \* seek or write_all fails
            /\ dpc' = "err"
            /\ UNCHANGED <<file, writes>>
  /\ resq' = Tail(resq)
  /\ UNCHANGED <<cvars, idx, join_idx, jobq, wvars>>

\* result_rx.recv() returns None: the channel is empty and every sender dropped.
ResultLoopEnd ==
  /\ dpc = "drain"
  /\ resq = <<>>
  /\ SendersDropped
  /\ dpc' = "join"
  /\ UNCHANGED <<cvars, idx, join_idx, file, writes, jobq, resq, wvars>>

\* for handle in handles: handle.await? and the bail on a task's error.
Join ==
  /\ dpc = "join"
  /\ join_idx <= npeers
  /\ Gone(join_idx)
  /\ IF pc[join_idx] = "panicked" \/ HandleFailed(join_idx)
     THEN dpc' = "err" /\ UNCHANGED join_idx
     ELSE join_idx' = join_idx + 1 /\ UNCHANGED dpc
  /\ UNCHANGED <<cvars, idx, file, writes, jobq, resq, wvars>>

\* Ok(())
Return ==
  /\ dpc = "join"
  /\ join_idx > npeers
  /\ dpc' = "ok"
  /\ UNCHANGED <<cvars, idx, join_idx, file, writes, jobq, resq, wvars>>

Next ==
  \/ Enqueue
  \/ CloseJobs
  \/ CreateFile
  \/ ResultRecv
  \/ ResultLoopEnd
  \/ Join
  \/ Return
  \/ \E w \in Workers :
       \/ Connect(w)
       \/ HandshakeSend(w)
       \/ HandshakeRecv(w)
       \/ ReadBitfield(w)
       \/ SendInterested(w)
       \/ ReadUnchoke(w)
       \/ JobRecv(w)
       \/ WorkerExit(w)
       \/ RequestWrite(w)
       \/ ResponseRead(w)
       \/ VerifyPiece(w)
       \/ ResultSend(w)

Spec == Init /\ [][Next]_vars

\* ------------------------------------------------------------ scheduling
\* The tokio runtime runs every task that can go on, and a read returns when
\* the peer has sent the bytes: a step that stays possible is taken
\* (WF_vars in the specifications below).

\* Every peer answers correctly and no call of the operating system fails: no
\* task ends with an error, and the bytes of a piece are those of the file.
Correct ==
  /\ dpc # "err"
  /\ \A w \in Workers :
       /\ pc[w] \notin {"exit_err", "panicked"}
       /\ piece_data[w] = TakeB(PieceBytes(dr, job[w].idx), ByteLen(piece_data[w]))

HonestInit ==
  /\ dr \in Torrents
  /\ npeers \in 1..MaxPeers
  /\ quiet = [w \in Workers |-> "never"]
  /\ DownloadStart

HonestNext == Next /\ Correct'

HonestSpec == HonestInit /\ [][HonestNext]_vars /\ WF_vars(HonestNext)

\* Peers that stop sending: each peer at one of the reads of its session, or
\* never.
QuietAt == {"never", "hs_recv", "bf_recv", "un_recv", "response"}

SilentInit ==
  /\ dr \in Torrents
  /\ npeers \in 1..MaxPeers
  /\ quiet \in [Workers -> QuietAt]
  /\ DownloadStart

SilentSpec == SilentInit /\ [][Next]_vars /\ WF_vars(Next)

\* ------------------------------------------------------------ many pieces
\* A torrent of more pieces than the result channel holds, each of one block
\* shorter than BLOCK_SIZE, downloaded from BusyPeers peers.
ManyPieces == 12
BusyPeers == 1

BusyInit ==
  /\ dr = DownloadRequest(ManyPieces, 6241, 6241)
  /\ npeers \in 1..BusyPeers
  /\ quiet = [w \in Workers |-> "never"]
  /\ DownloadStart

BusySpec == BusyInit /\ [][Next]_vars

\* The same under fair scheduling: the runtime runs a task that can take a
\* step, and the peers answer.
BusyFairSpec == BusyInit /\ [][Next]_vars /\ WF_vars(Next)

\* ------------------------------------------------------------ perform_download_piece
\* perform_download_piece(client_id, peer, download_req, piece_idx): one
\* session, run by the caller itself; piece_idx may lie beyond the last piece.
PieceInit ==
  /\ dr \in Torrents
  /\ piece_idx \in 0..dr.n
  /\ npeers = 1
  /\ dpc = "single"
  /\ idx = 0
  /\ join_idx = 1
  /\ jobq = <<>>
  /\ resq = <<>>
  /\ file = <<>>
  /\ writes = <<>>
  /\ pc = [w \in Workers |-> "connect"]
  /\ job = [w \in Workers |-> NoPiece]
  /\ piece_data = [w \in Workers |-> <<>>]
  /\ progress = [w \in Workers |-> 0]
  /\ cur_req = [w \in Workers |-> NoRequest]
  /\ buf = [w \in Workers |-> NoBuf]
  /\ wire = [w \in Workers |-> <<>>]
  /\ cause = [w \in Workers |-> "none"]
  /\ taken = [w \in Workers |-> {}]
  /\ quiet = [w \in Workers |-> "never"]
  /\ rd = NoRead
  /\ st = NoStream
  /\ g = NoGen
  /\ call = NoCall

\* download_req.pieces.get(piece_idx).ok_or(..)? and the Piece handed to
\* download_piece.
PieceJob ==
  /\ dpc = "single"
  /\ pc[1] = "ready"
  /\ IF piece_idx < dr.n
     THEN /\ job' = [job EXCEPT ![1] = [hash |-> dr.pieces[piece_idx + 1],
                                        idx |-> piece_idx,
                                        len |-> dr.piece_length]]
          /\ taken' = [taken EXCEPT ![1] = @ \cup {piece_idx}]
          /\ pc' = [pc EXCEPT ![1] = "request"]
          /\ UNCHANGED cause
     ELSE /\ Fail(1, "no piece")
          /\ UNCHANGED <<job, taken>>
  /\ UNCHANGED <<cvars, dvars, jobq, resq, piece_data, progress, cur_req, buf, wire>>

\* Ok(full_piece.data), or the error of setup_peer or download_piece.
PieceReturn ==
  /\ dpc = "single"
  /\ pc[1] \in {"send"} \cup Exited
  /\ dpc' = IF pc[1] = "send" THEN "ok" ELSE "err"
  /\ UNCHANGED <<cvars, idx, join_idx, file, writes, jobq, resq, wvars>>

PieceNext ==
  \/ PieceJob
  \/ PieceReturn
  \/ \E w \in Workers :
       \/ Connect(w)
       \/ HandshakeSend(w)
       \/ HandshakeRecv(w)
       \/ ReadBitfield(w)
       \/ SendInterested(w)
       \/ ReadUnchoke(w)
       \/ RequestWrite(w)
       \/ ResponseRead(w)
       \/ VerifyPiece(w)

PieceSpec == PieceInit /\ [][PieceNext]_vars

\* ------------------------------------------------------------ the reader alone
\* The largest byte after the length prefix that is tried.
MaxIdent == 9

\* Length prefixes: 0, the lengths of the messages of the protocol, a piece
\* cut inside its header, the lengths around the payload cap and 2^31 - 1.
LenPrefixes ==
  {0, 1, 2, 5, 8, 9, 10, 13, 9 + BLOCK_SIZE, 10 + BLOCK_SIZE,
   MAX_PAYLOAD_LEN, MAX_PAYLOAD_LEN + 1, MAX_PAYLOAD_LEN + 2, 2147483647}

\* cnt bytes of a stream after the meta bytes: what would be the index/begin
\* header of a piece message, then other bytes.
Symbolic(cnt) == Cat(Ext("hdr", 0, IF cnt < 8 THEN cnt ELSE 8), Ext("junk", 0, cnt - 8))

\* The payload_len bytes the stream holds after the five meta bytes.
StreamPayload(len_prefix) == Symbolic(payload_len(len_prefix))

\* No download is running and there is no session.
NoSessions ==
  /\ npeers = 0
  /\ dpc = "idle"
  /\ idx = 0
  /\ join_idx = 1
  /\ jobq = <<>>
  /\ resq = <<>>
  /\ file = <<>>
  /\ writes = <<>>
  /\ pc = <<>>
  /\ job = <<>>
  /\ piece_data = <<>>
  /\ progress = <<>>
  /\ cur_req = <<>>
  /\ buf = <<>>
  /\ wire = <<>>
  /\ cause = <<>>
  /\ taken = <<>>
  /\ quiet = <<>>
  /\ piece_idx = 0

ReadInit ==
  /\ \E l \in LenPrefixes, i \in 0..MaxIdent :
       rd = [len |-> l, id |-> i, payload |-> StreamPayload(l), msg |-> NoMessage]
  /\ dr \in Torrents
  /\ NoSessions
  /\ st = NoStream
  /\ g = NoGen
  /\ call = NoCall

\* reader.from_stream(&mut stream)
ReadMessage ==
  /\ rd.msg = NoMessage
  /\ rd' = [rd EXCEPT !.msg = from_stream(rd.len, rd.id, rd.payload)]
  /\ UNCHANGED <<dr, npeers, st, g, quiet, piece_idx, call, dvars, jobq, resq, wvars>>

ReadNext == ReadMessage

ReadSpec == ReadInit /\ [][ReadNext]_vars

\* ------------------------------------------------------------ the reader on a stream
\* The largest number of frames a peer puts on the stream.
MaxFrames == 3

\* u32::to_be_bytes and u32::from_be_bytes
to_be_bytes(v) == <<v \div 16777216, (v \div 65536) % 256, (v \div 256) % 256, v % 256>>
from_be_bytes(b) == ((b[1] * 256 + b[2]) * 256 + b[3]) * 256 + b[4]

\* The frames of the protocol as bytes: the keep-alive (length 0, no id byte)
\* and messages with the length prefix, the id byte and the payload.
KeepAlive == to_be_bytes(0)
WireMessage(ident, payload) == to_be_bytes(1 + Len(payload)) \o <<ident>> \o payload

WireFrames ==
  { KeepAlive,
    WireMessage(0, <<>>),                                  \* choke
    WireMessage(1, <<>>),                                  \* unchoke
    WireMessage(5, <<255>>),                               \* bitfield
    WireMessage(7, <<0, 0, 0, 0, 0, 0, 0, 0, 17, 18>>),    \* piece, a 2-byte block
    to_be_bytes(11) \o <<7, 0, 0, 0>> }                    \* piece, cut off after 3 bytes

RECURSIVE Flatten(_)
Flatten(frames) == IF frames = <<>> THEN <<>> ELSE frames[1] \o Flatten(Tail(frames))

\* The number of bytes of the stream before frame i.
FrameStart(frames, i) == Len(Flatten(SubSeq(frames, 1, i - 1)))

\* reader.from_stream(stream) on a stream of which pos bytes are consumed:
\* read_exact of the five meta bytes, then from_stream's work on them.
read_at(bytes, pos) ==
  LET avail == Len(bytes) - pos
  IN  IF avail < 5
      THEN [from |-> pos, to |-> Len(bytes), kind |-> "Err", block |-> <<>>]
      ELSE LET meta == SubSeq(bytes, pos + 1, pos + 5)
               msg == from_stream(from_be_bytes(meta), meta[5], Symbolic(avail - 5))
           IN  [from |-> pos, to |-> pos + 5 + msg.read,
                kind |-> msg.kind, block |-> msg.block]

StreamInit ==
  /\ \E k \in 1..MaxFrames : \E frames \in [1..k -> WireFrames] :
       st = [frames |-> frames, pos |-> 0, reads |-> <<>>]
  /\ dr \in Torrents
  /\ NoSessions
  /\ rd = NoRead
  /\ g = NoGen
  /\ call = NoCall

\* A caller reads the next message; every caller returns on the first error.
StreamRead ==
  LET bytes == Flatten(st.frames)
      r == read_at(bytes, st.pos)
  IN  /\ st.pos < Len(bytes)
      /\ IF st.reads = <<>> THEN TRUE
         ELSE st.reads[Len(st.reads)].kind \notin {"Err", "Panic"}
      /\ st' = [st EXCEPT !.pos = r.to, !.reads = Append(@, r)]
      /\ UNCHANGED <<dr, npeers, rd, g, quiet, piece_idx, call, dvars, jobq, resq, wvars>>

StreamNext == StreamRead

StreamSpec == StreamInit /\ [][StreamNext]_vars

\* ------------------------------------------------------------ the generator alone
\* Piece lengths of up to MaxBlocks whole blocks and a rest; next() is called
\* until it has returned None MaxNones times.
MaxBlocks == 3
MaxNones == 2

PieceLens ==
  {len \in {k * BLOCK_SIZE + d : k \in 0..MaxBlocks, d \in {-1, 0, 1, 6241}} : len >= 1}

NonesReturned(calls) == Cardinality({k \in 1..Len(calls) : ~calls[k].some})

\* RequestPayloadGen::new(piece_len, piece_idx)
GenInit ==
  /\ \E len \in PieceLens, i \in 0..1 :
       g = [piece_len |-> len, piece_idx |-> i, progress |-> 0, calls |-> <<>>]
  /\ dr \in Torrents
  /\ NoSessions
  /\ rd = NoRead
  /\ st = NoStream
  /\ call = NoCall

\* gen.next()
GenCall ==
  LET r == RequestPayloadGen_next(g.progress, g.piece_len, g.piece_idx)
  IN  /\ g.piece_len > 0
      /\ NonesReturned(g.calls) < MaxNones
      /\ g' = [g EXCEPT !.progress = r.progress,
                        !.calls = Append(@, [some |-> r.some, index |-> r.index,
                                             begin |-> r.begin, length |-> r.length])]
      /\ UNCHANGED <<dr, npeers, rd, st, quiet, piece_idx, call, dvars, jobq, resq, wvars>>

GenNext == GenCall

GenSpec == GenInit /\ [][GenNext]_vars

\* ------------------------------------------------------------ the request message alone
\* REQUEST_MESSAGE_LENGTH_BYTES, a usize: the id byte and three u32 fields.
REQUEST_MESSAGE_LENGTH_BYTES == 13

\* The size of usize in bytes on the targets the client can be built for.
UsizeBytes == {4, 8}

\* usize::to_be_bytes on a target whose usize has `width` bytes, for v < 2^31.
usize_to_be_bytes(v, width) ==
  [i \in 1..width |-> IF width - i >= 4 THEN 0 ELSE (v \div 256^(width - i)) % 256]

\* RequestPayload::append_bytes
RequestPayload_append_bytes(to, r) ==
  to \o to_be_bytes(r.index) \o to_be_bytes(r.begin) \o to_be_bytes(r.length)

\* PeerMessage::to_bytes; the length prefix of a request is
\* REQUEST_MESSAGE_LENGTH_BYTES.to_be_bytes(), as wide as usize is.
PeerMessage_to_bytes(msg, width) ==
  CASE msg.kind = "Unchoke" -> <<0, 0, 0, 1, 1>>
    [] msg.kind = "Interested" -> <<0, 0, 0, 1, 2>>
    [] msg.kind = "Bitfield" -> <<0, 0, 0, 1, 5>>
    [] msg.kind = "Request" ->
         RequestPayload_append_bytes(
           usize_to_be_bytes(REQUEST_MESSAGE_LENGTH_BYTES, width) \o <<6>>, msg)

\* The messages the client sends: interested, and requests whose u32 fields
\* are small, have several non-zero bytes or are the largest value below 2^31.
EncodeInit ==
  /\ LET RequestFields == {0, 1, 6241, BLOCK_SIZE, 16909060, 2147483647}
         SentMessages ==
           {[kind |-> "Interested"]} \cup
           {[kind |-> "Request", index |-> i, begin |-> b, length |-> l] :
              i \in RequestFields, b \in RequestFields, l \in RequestFields}
     IN  \E m \in SentMessages, width \in UsizeBytes :
           call = [fn |-> "to_bytes", msg |-> m, usize |-> width,
                   done |-> FALSE, out |-> <<>>]
  /\ dr \in Torrents
  /\ NoSessions
  /\ rd = NoRead
  /\ st = NoStream
  /\ g = NoGen

\* msg.to_bytes()
EncodeMessage ==
  /\ call.fn = "to_bytes"
  /\ ~call.done
  /\ call' = [call EXCEPT !.done = TRUE, !.out = PeerMessage_to_bytes(call.msg, call.usize)]
  /\ UNCHANGED <<dr, npeers, rd, st, g, quiet, piece_idx, dvars, jobq, resq, wvars>>

EncodeSpec == EncodeInit /\ [][EncodeMessage]_vars

\* ------------------------------------------------------------ the handshake alone
\* The 68 bytes read back: the encoded handshake, or one that differs from it
\* in one byte.
Received(bytes) ==
  {bytes} \cup {[bytes EXCEPT ![i] = (@ + 1) % 256] : i \in {1, 2, 21, 28, 29, 48, 49, 68}}

\* Handshake::new(info_hash, peer_id), with info-hashes of 20 bytes of any
\* value and peer ids of 20 alphanumeric characters (PeerID::new).
HandshakeInit ==
  /\ LET InfoHashes ==
           {[i \in 1..20 |-> (b + i) % 256] : b \in {0, 18, 160, 250}}
             \cup {[i \in 1..20 |-> 0]}
         PeerIds == {[i \in 1..20 |-> c] : c \in {48, 90, 122}} \cup {ClientId, RemoteId}
     IN  \E h \in InfoHashes, p \in PeerIds :
           call = [fn |-> "handshake", info_hash |-> h, peer_id |-> p,
                   bytes |-> <<>>, data |-> <<>>, parsed |-> [ok |-> FALSE]]
  /\ dr \in Torrents
  /\ NoSessions
  /\ rd = NoRead
  /\ st = NoStream
  /\ g = NoGen

\* handshake.to_bytes()
HandshakeEncode ==
  /\ call.fn = "handshake"
  /\ call.bytes = <<>>
  /\ call' = [call EXCEPT !.bytes = Handshake_to_bytes(call.info_hash, call.peer_id)]
  /\ UNCHANGED <<dr, npeers, rd, st, g, quiet, piece_idx, dvars, jobq, resq, wvars>>

\* Handshake::from_bytes(data) on 68 bytes read from a stream
HandshakeDecode ==
  /\ call.fn = "handshake"
  /\ call.bytes # <<>>
  /\ call.data = <<>>
  /\ \E data \in Received(call.bytes) :
       call' = [call EXCEPT !.data = data, !.parsed = Handshake_from_bytes(data)]
  /\ UNCHANGED <<dr, npeers, rd, st, g, quiet, piece_idx, dvars, jobq, resq, wvars>>

HandshakeNext == HandshakeEncode \/ HandshakeDecode

HandshakeSpec == HandshakeInit /\ [][HandshakeNext]_vars

\* ------------------------------------------------------------ the bencode decoder alone
\* A text is a sequence of one-character strings; every character tried is
\* ASCII, so a character index is a byte index.
Digits == <<"0", "1", "2", "3", "4", "5", "6", "7", "8", "9">>

\* char::is_numeric on the characters tried
is_numeric(ch) == \E d \in DOMAIN Digits : Digits[d] = ch

DigitValue(ch) == (CHOOSE d \in DOMAIN Digits : Digits[d] = ch) - 1

RECURSIVE DigitsValue(_)
DigitsValue(s) ==
  IF s = <<>> THEN 0
  ELSE DigitsValue(SubSeq(s, 1, Len(s) - 1)) * 10 + DigitValue(s[Len(s)])

AllDigits(s) == s # <<>> /\ \A k \in DOMAIN s : is_numeric(s[k])

\* str::parse::<usize>: digits after an optional "+"; the texts tried keep the
\* numbers far below the largest usize.
parse_usize(s) ==
  IF AllDigits(s) THEN [ok |-> TRUE, v |-> DigitsValue(s)]
  ELSE IF s # <<>> /\ s[1] = "+" /\ AllDigits(Tail(s))
  THEN [ok |-> TRUE, v |-> DigitsValue(Tail(s))]
  ELSE [ok |-> FALSE, v |-> 0]

\* str::parse::<i64>: digits after an optional "+" or "-"; "-0" is 0 and
\* leading zeros are skipped. The texts tried keep the numbers far below 2^63.
parse_i64(s) ==
  IF AllDigits(s) THEN [ok |-> TRUE, v |-> DigitsValue(s)]
  ELSE IF s # <<>> /\ s[1] = "+" /\ AllDigits(Tail(s))
  THEN [ok |-> TRUE, v |-> DigitsValue(Tail(s))]
  ELSE IF s # <<>> /\ s[1] = "-" /\ AllDigits(Tail(s))
  THEN [ok |-> TRUE, v |-> 0 - DigitsValue(Tail(s))]
  ELSE [ok |-> FALSE, v |-> 0]

\* serde_json::Value: a number, a string, an array and an object (a map from
\* keys to values, equal to another when both hold the same entries), as a
\* pair of the variant and what it holds.
Number(n) == <<"Number", n>>
String(s) == <<"String", s>>
Array(list) == <<"Array", list>>
Object(map) == <<"Object", map>>

\* Map::insert: a key already present gets the new value.
Insert(map, key, value) ==
  [k \in DOMAIN map \cup {key} |-> IF k = key THEN value ELSE map[k]]

\* Err(..) and Ok(ParsedValue { length, value })
Bail == [ok |-> FALSE, length |-> 0, value |-> <<"None">>]
ParsedValue(length, value) == [ok |-> TRUE, length |-> length, value |-> value]

\* input.get(idx..input.len())
RestOf(input, p) == SubSeq(input, p, Len(input))

\* The loop of bdecode_num over input.chars(), from character k on: every "i"
\* is skipped, the first "e" ends the loop, and so does the end of the input.
RECURSIVE bdecode_num_loop(_, _, _, _)
bdecode_num_loop(input, k, num_string, signed_seen) ==
  IF k > Len(input) THEN [ok |-> TRUE, num_string |-> num_string]
  ELSE IF input[k] = "i" THEN bdecode_num_loop(input, k + 1, num_string, signed_seen)
  ELSE IF input[k] = "e" THEN [ok |-> TRUE, num_string |-> num_string]
  ELSE IF is_numeric(input[k]) \/ (input[k] = "-" /\ ~signed_seen)
  THEN bdecode_num_loop(input, k + 1, Append(num_string, input[k]), TRUE)
  ELSE [ok |-> FALSE, num_string |-> num_string]

bdecode_num(input) ==
  LET r == bdecode_num_loop(input, 1, <<>>, FALSE)
      num == parse_i64(r.num_string)
  IN  IF ~r.ok THEN Bail
      ELSE IF ~num.ok THEN Bail
      ELSE ParsedValue(Len(r.num_string) + 2, Number(num.v))

\* The index of the first ":" of the input, 0 if it has none.
ColonAt(input) ==
  IF \E k \in DOMAIN input : input[k] = ":"
  THEN CHOOSE k \in DOMAIN input :
         input[k] = ":" /\ \A j \in 1..(k - 1) : input[j] # ":"
  ELSE 0

\* Variant: a string is cut at the end of the input when its length says more.
bdecode_string_clipped(input) ==
  LET c == ColonAt(input)
      length_string == IF c = 0 THEN input ELSE SubSeq(input, 1, c - 1)
      length == parse_usize(length_string)
      contents == RestOf(input, c + 1)
      relevant == IF length.v > Len(contents) THEN contents ELSE SubSeq(contents, 1, length.v)
  IN  IF ~length.ok THEN Bail
      ELSE IF c = 0 THEN Bail
      ELSE ParsedValue(Len(relevant) + Len(length_string) + 1, String(relevant))

bdecode_string(input) ==
  LET c == ColonAt(input)
      length_string == IF c = 0 THEN input ELSE SubSeq(input, 1, c - 1)
      length == parse_usize(length_string)
      contents == RestOf(input, c + 1)
  IN  IF ~length.ok THEN Bail
      ELSE IF c = 0 THEN Bail
      ELSE IF length.v > Len(contents) THEN Bail
      ELSE ParsedValue(length.v + Len(length_string) + 1,
                       String(SubSeq(contents, 1, length.v)))

RECURSIVE decode(_)

\* The loop of bdecode_list; p is the index of the character char_iter yields
\* next. Every "l" peeked is consumed and skipped.
RECURSIVE bdecode_list_loop(_, _, _, _)
bdecode_list_loop(input, p, list, list_len) ==
  IF p > Len(input) THEN ParsedValue(list_len, Array(list))
  ELSE IF input[p] = "e" THEN ParsedValue(list_len, Array(list))
  ELSE IF input[p] = "l" THEN bdecode_list_loop(input, p + 1, list, list_len)
  ELSE LET parsed_value == decode(RestOf(input, p))
       IN  IF ~parsed_value.ok THEN Bail
           ELSE IF p + parsed_value.length - 1 > Len(input) THEN Bail
           ELSE bdecode_list_loop(input, p + parsed_value.length,
                                  Append(list, parsed_value.value),
                                  list_len + parsed_value.length)

bdecode_list(input) == bdecode_list_loop(input, 1, <<>>, 2)

\* The loop of bdecode_dict; every "d" peeked where a key is due is consumed
\* and skipped.
RECURSIVE bdecode_dict_loop(_, _, _, _)
bdecode_dict_loop(input, p, map, dict_len) ==
  IF p > Len(input) THEN Bail
  ELSE IF input[p] = "e" THEN ParsedValue(dict_len, Object(map))
  ELSE IF input[p] = "d" THEN bdecode_dict_loop(input, p + 1, map, dict_len)
  ELSE LET key == bdecode_string(RestOf(input, p))
       IN  IF ~key.ok THEN Bail
           ELSE IF p + key.length - 1 > Len(input) THEN Bail
           ELSE LET q == p + key.length
                IN  IF q > Len(input) THEN Bail
                    ELSE IF input[q] = "e" THEN Bail
                    ELSE LET value == decode(RestOf(input, q))
                         IN  IF ~value.ok THEN Bail
                             ELSE IF q + value.length - 1 > Len(input) THEN Bail
                             ELSE bdecode_dict_loop(
                                    input, q + value.length,
                                    Insert(map, key.value[2], value.value),
                                    dict_len + key.length + value.length)

bdecode_dict(input) == bdecode_dict_loop(input, 1, <<>>, 2)

\* decode, with BencodeType::new on the first character
decode(input) ==
  IF input = <<>> THEN Bail
  ELSE IF is_numeric(input[1]) THEN bdecode_string(input)
  ELSE IF input[1] = "i" THEN bdecode_num(input)
  ELSE IF input[1] = "l" THEN bdecode_list(input)
  ELSE IF input[1] = "d" THEN bdecode_dict(input)
  ELSE Bail

\* The largest number of items of a list and of entries of a dictionary tried.
MaxItems == 2

RECURSIVE Decimal(_)
Decimal(n) ==
  IF n < 0 THEN <<"-">> \o Decimal(0 - n)
  ELSE IF n < 10 THEN <<Digits[n + 1]>>
  ELSE Decimal(n \div 10) \o <<Digits[(n % 10) + 1]>>

\* The encodings "i<number>e" and "<length>:<contents>" with the value each
\* stands for.
NumTerm(n) == [text |-> <<"i">> \o Decimal(n) \o <<"e">>, value |-> Number(n), dup |-> FALSE]
StrTerm(s) == [text |-> Decimal(Len(s)) \o <<":">> \o s, value |-> String(s), dup |-> FALSE]

RECURSIVE TextOf(_)
TextOf(items) == IF items = <<>> THEN <<>> ELSE items[1].text \o TextOf(Tail(items))

\* "l<items>e"
ListTerm(items) ==
  [text |-> <<"l">> \o TextOf(items) \o <<"e">>,
   value |-> Array([k \in DOMAIN items |-> items[k].value]),
   dup |-> FALSE]

RECURSIVE EntriesText(_)
EntriesText(entries) ==
  IF entries = <<>> THEN <<>>
  ELSE StrTerm(entries[1].key).text \o entries[1].item.text \o EntriesText(Tail(entries))

DistinctKeys(entries) ==
  \A i, j \in DOMAIN entries : entries[i].key = entries[j].key => i = j

\* "d<key><value>...e" with the entries in the order given; value holds, for
\* every key, the value of the last entry with the key.
DictTerm(entries) ==
  [text |-> <<"d">> \o EntriesText(entries) \o <<"e">>,
   value |-> Object([key \in {entries[i].key : i \in DOMAIN entries} |->
               LET last == CHOOSE i \in DOMAIN entries :
                             /\ entries[i].key = key
                             /\ \A j \in DOMAIN entries : entries[j].key = key => j <= i
               IN  entries[last].item.value]),
   dup |-> ~DistinctKeys(entries)]

Keys == {<<"a">>, <<"b">>}

SeqsUpTo(S, n) == UNION {[1..k -> S] : k \in 0..n}
ListsOf(S) == {ListTerm(items) : items \in SeqsUpTo(S, MaxItems)}
EntriesOf(S) == SeqsUpTo([key : Keys, item : S], MaxItems)
DictsOf(S) == {DictTerm(entries) : entries \in {e \in EntriesOf(S) : DistinctKeys(e)}}
DupDictsOf(S) == {DictTerm(entries) : entries \in {e \in EntriesOf(S) : ~DistinctKeys(e)}}

\* Numbers and strings; a list holds an integer and a string made of the
\* characters that start and end a list.
Scalars == {NumTerm(n) : n \in {0, 7, 52, 0 - 1, 0 - 52}}
             \cup {StrTerm(s) : s \in {<<>>, <<"a">>, <<"l", "e">>, <<"a", "b", "c">>}}
Items == {NumTerm(0 - 52), StrTerm(<<"l", "e">>)}
Flat == ListsOf(Items) \cup DictsOf(Items)
Nested == ListsOf(Items \cup Flat) \cup DictsOf(Items \cup Flat)

\* Well-formed values, dictionaries with a key twice, and texts that are no
\* encodings: integers with a sign or zeros too many or no digits, strings
\* whose length is wrong, and a character no value starts with.
WellFormed == Scalars \cup Flat \cup Nested
Duplicates == DupDictsOf(Items \cup Flat)
Malformed ==
  {[text |-> t, value |-> <<"None">>, dup |-> FALSE] :
     t \in {<<"i", "-", "0", "e">>, <<"i", "0", "3", "e">>, <<"i", "-", "e">>,
            <<"i", "e">>, <<"i", "0", "0", "e">>, <<"i", "-", "0", "3", "e">>,
            <<"i", "5", "-", "e">>, <<"i", "-", "-", "5", "e">>,
            <<"3", ":", "a", "b">>, <<"1", ":">>, <<"1", "0", ":", "a", "b", "c">>,
            <<"2", ":", "a", "b", "c">>, <<"0", "2", ":", "a", "b">>,
            <<"2", "a", "b">>, <<"x">>}}

\* decode is given a text or its first `cut` characters.
DecodeInit ==
  /\ \E term \in WellFormed \cup Duplicates \cup Malformed :
       \E cut \in 0..Len(term.text) :
         call = [fn |-> "decode", term |-> term, cut |-> cut,
                 input |-> SubSeq(term.text, 1, cut), done |-> FALSE, out |-> Bail]
  /\ dr \in Torrents
  /\ NoSessions
  /\ rd = NoRead
  /\ st = NoStream
  /\ g = NoGen

\* decode(input)
Decode ==
  /\ call.fn = "decode"
  /\ ~call.done
  /\ call' = [call EXCEPT !.done = TRUE, !.out = decode(call.input)]
  /\ UNCHANGED <<dr, npeers, rd, st, g, quiet, piece_idx, dvars, jobq, resq, wvars>>

DecodeSpec == DecodeInit /\ [][Decode]_vars

\* ------------------------------------------------------------ the compact peer list alone
PEER_BYTE_SIZE == 6

\* The largest number of whole 6-byte records of a peer list tried.
MaxRecords == 2

\* Variant: the port is read with the low byte first.
Peer_from_bytes_le(b) ==
  IF Len(b) # 6 THEN [ok |-> FALSE, ip |-> <<>>, port |-> 0]
  ELSE [ok |-> TRUE, ip |-> <<b[1], b[2], b[3], b[4]>>, port |-> b[6] * 256 + b[5]]

\* Peer::from_bytes: IpAddr::from of four bytes and u16::from_be_bytes of two
Peer_from_bytes(b) ==
  IF Len(b) # 6 THEN [ok |-> FALSE, ip |-> <<>>, port |-> 0]
  ELSE [ok |-> TRUE, ip |-> <<b[1], b[2], b[3], b[4]>>, port |-> b[5] * 256 + b[6]]

\* Peers::from_peer_response over pr.peers.chunks(PEER_BYTE_SIZE): the first
\* chunk that is no peer ends the call with its error. out is the vector so far.
RECURSIVE from_peer_response(_, _)
from_peer_response(peers, out) ==
  IF peers = <<>> THEN [ok |-> TRUE, peers |-> out]
  ELSE LET n == IF Len(peers) < PEER_BYTE_SIZE THEN Len(peers) ELSE PEER_BYTE_SIZE
           p == Peer_from_bytes(SubSeq(peers, 1, n))
       IN  IF ~p.ok THEN [ok |-> FALSE, peers |-> <<>>]
           ELSE from_peer_response(SubSeq(peers, n + 1, Len(peers)),
                                   Append(out, [ip |-> p.ip, port |-> p.port]))

\* Records of a compact peer list and peer lists of up to MaxRecords records
\* followed by 0 to 5 bytes more.
CompactRecords ==
  {<<127, 0, 0, 1, 26, 225>>, <<165, 232, 41, 73, 201, 100>>, <<255, 255, 255, 255, 0, 80>>}

PeerLists ==
  {Flatten(records) \o SubSeq(rest, 1, k) :
     records \in UNION {[1..n -> CompactRecords] : n \in 0..MaxRecords},
     rest \in CompactRecords, k \in 0..(PEER_BYTE_SIZE - 1)}

PeersInit ==
  /\ \E data \in PeerLists :
       call = [fn |-> "from_peer_response", peers |-> data, done |-> FALSE,
               out |-> [ok |-> FALSE, peers |-> <<>>]]
  /\ dr \in Torrents
  /\ NoSessions
  /\ rd = NoRead
  /\ st = NoStream
  /\ g = NoGen

\* Peers::from_peer_response(parsed)
ParsePeers ==
  /\ call.fn = "from_peer_response"
  /\ ~call.done
  /\ call' = [call EXCEPT !.done = TRUE, !.out = from_peer_response(call.peers, <<>>)]
  /\ UNCHANGED <<dr, npeers, rd, st, g, quiet, piece_idx, dvars, jobq, resq, wvars>>

PeersSpec == PeersInit /\ [][ParsePeers]_vars

\* ------------------------------------------------------------ the torrent model alone
\* META_URL_KEY, META_INFO_KEY, INFO_LENGTH_KEY, INFO_NAME_KEY and
\* INFO_PIECE_LENGTH_KEY
META_URL_KEY == <<"a", "n", "n", "o", "u", "n", "c", "e">>
META_INFO_KEY == <<"i", "n", "f", "o">>
INFO_LENGTH_KEY == <<"l", "e", "n", "g", "t", "h">>
INFO_NAME_KEY == <<"n", "a", "m", "e">>
INFO_PIECE_LENGTH_KEY == <<"p", "i", "e", "c", "e", " ", "l", "e", "n", "g", "t", "h">>

\* The largest number of 20-byte piece hashes tried.
MaxHashes == 3

\* Map::get followed by as_object, as_u64 and as_str: None for a missing key
\* and for a value of another kind (as_u64: also for a negative number).
GetAs(map, key, kind) ==
  IF key \notin DOMAIN map THEN [some |-> FALSE, v |-> 0]
  ELSE IF map[key][1] # kind THEN [some |-> FALSE, v |-> 0]
  ELSE [some |-> TRUE, v |-> map[key][2]]

as_u64(opt) == IF opt.some THEN [some |-> opt.v >= 0, v |-> opt.v] ELSE opt

\* Url::parse: a text without a scheme before a ":" is no URL.
Url_parse(s) == ColonAt(s) > 1

NoMeta == [ok |-> FALSE, length |-> 0, piece_length |-> 0, pieces_data |-> <<>>]

\* Info::parse: the four fields are taken as they come; pieces_data is
\* compared with nothing.
Info_parse(decoded_info, pieces_data) ==
  LET info_raw == GetAs(decoded_info, META_INFO_KEY, "Object")
  IN  IF ~info_raw.some THEN NoMeta
      ELSE LET len == as_u64(GetAs(info_raw.v, INFO_LENGTH_KEY, "Number"))
               name == GetAs(info_raw.v, INFO_NAME_KEY, "String")
               piece_length == as_u64(GetAs(info_raw.v, INFO_PIECE_LENGTH_KEY, "Number"))
           IN  IF ~len.some \/ ~name.some \/ ~piece_length.some THEN NoMeta
               ELSE [ok |-> TRUE, length |-> len.v, piece_length |-> piece_length.v,
                     pieces_data |-> pieces_data]

\* Meta::parse
Meta_parse(decoded_metadata, pieces_data) ==
  IF decoded_metadata[1] # "Object" THEN NoMeta
  ELSE LET raw_url == GetAs(decoded_metadata[2], META_URL_KEY, "String")
       IN  IF ~raw_url.some THEN NoMeta
           ELSE IF ~Url_parse(raw_url.v) THEN NoMeta
           ELSE Info_parse(decoded_metadata[2], pieces_data)

\* Decoded metadata: the dictionary of a torrent file with the length and the
\* piece length given, the same without its length, and a list.
TrackerUrl == <<"h", "t", "t", "p", ":", "/", "/", "t">>
InfoOf(len, piece_length) ==
  Insert(Insert(Insert(<<>>, INFO_LENGTH_KEY, Number(len)),
                INFO_NAME_KEY, String(<<"f">>)),
         INFO_PIECE_LENGTH_KEY, Number(piece_length))
MetaOf(info) ==
  Object(Insert(Insert(<<>>, META_URL_KEY, String(TrackerUrl)), META_INFO_KEY, Object(info)))
Metadata(len, piece_length) ==
  {MetaOf(InfoOf(len, piece_length)),
   MetaOf(Insert(Insert(<<>>, INFO_NAME_KEY, String(<<"f">>)),
                 INFO_PIECE_LENGTH_KEY, Number(piece_length))),
   Array(<<>>)}

\* The bytes of TorrentFile.pieces_hashes: whole 20-byte hashes and, for
\* some, 7 bytes more.
PiecesData == {[i \in 1..(20 * h + r) |-> i % 256] : h \in 0..MaxHashes, r \in {0, 7}}

MetaInit ==
  /\ \E len \in {0, 1, 16384, 32768, 39009}, piece_length \in {16384, 32768} :
       \E meta \in Metadata(len, piece_length), data \in PiecesData :
         call = [fn |-> "Meta::parse", metadata |-> meta, pieces_data |-> data,
                 done |-> FALSE, out |-> NoMeta]
  /\ dr \in Torrents
  /\ NoSessions
  /\ rd = NoRead
  /\ st = NoStream
  /\ g = NoGen

\* Meta::parse(&decoded, pieces_hashes)
ParseMeta ==
  /\ call.fn = "Meta::parse"
  /\ ~call.done
  /\ call' = [call EXCEPT !.done = TRUE,
                          !.out = Meta_parse(call.metadata, call.pieces_data)]
  /\ UNCHANGED <<dr, npeers, rd, st, g, quiet, piece_idx, dvars, jobq, resq, wvars>>

MetaSpec == MetaInit /\ [][ParseMeta]_vars

\* ------------------------------------------------------------ the string parser alone
\* The largest declared length and the largest number of characters after
\* the colon tried.
MaxDeclared == 4
MaxChars == 3

\* decode is given "<len>:<chars>", len written with or without a leading
\* zero, with as many characters as declared, fewer or more; the characters
\* include the colon.
StringInit ==
  /\ \E n \in 0..MaxDeclared, zero \in {<<>>, <<"0">>} :
       \E chars \in SeqsUpTo({"a", "b", ":"}, MaxChars) :
         LET text == zero \o Decimal(n) \o <<":">> \o chars
         IN  call = [fn |-> "decode",
                     term |-> [text |-> text, value |-> <<"None">>, dup |-> FALSE],
                     cut |-> Len(text), input |-> text, done |-> FALSE, out |-> Bail]
  /\ dr \in Torrents
  /\ NoSessions
  /\ rd = NoRead
  /\ st = NoStream
  /\ g = NoGen

StringSpec == StringInit /\ [][Decode]_vars

\* ------------------------------------------------------------ download_piece and its request queue
\* mpsc::channel(5) of RequestQueue::receiver
REQUEST_CHANNEL_CAPACITY == 5

\* Variant: only rx.close() makes a send fail, the drop of rx does not.
SendFails_closed_only(rx) == rx = "closed"

\* tx.send(request) fails once rx is closed or dropped.
SendFails(rx) == rx \in {"closed", "dropped"}

\* download_piece has ended: with Ok, with an error or by a panic.
PieceEnded(c) == c.ppc \in {"ok", "err", "panicked"}

\* download_piece(piece, stream) on a session that is set up: the generator
\* task is spawned and the loop waits in rx.recv(). The peer answers every
\* request, or stops answering after quiet_after blocks.
QueueInit ==
  /\ \E len \in PieceLens, q \in {0 - 1, 0, 1} :
       call = [fn |-> "download_piece", piece_len |-> len, piece_idx |-> 0,
               gen_progress |-> 0, req_cnt |-> 0, chan |-> <<>>, rx |-> "open",
               gpc |-> "loop", ppc |-> "recv", requested |-> <<>>, blocks |-> 0,
               nones |-> 0, quiet_after |-> q]
  /\ dr \in Torrents
  /\ NoSessions
  /\ rd = NoRead
  /\ st = NoStream
  /\ g = NoGen

\* The generator task: self.gen.next(), req_cnt += 1 and tx.send(request); the
\* send waits while the channel is full and ends the task when it fails.
GenSend ==
  LET r == RequestPayloadGen_next(call.gen_progress, call.piece_len, call.piece_idx)
  IN  /\ call.fn = "download_piece"
      /\ call.gpc = "loop"
      /\ IF SendFails(call.rx)
         THEN call' = [call EXCEPT !.gpc = "exited", !.req_cnt = @ + 1,
                                   !.gen_progress = r.progress]
         ELSE /\ Len(call.chan) < REQUEST_CHANNEL_CAPACITY
              /\ call' = [call EXCEPT
                            !.chan = Append(@, [some |-> r.some, index |-> r.index,
                                                begin |-> r.begin, length |-> r.length]),
                            !.req_cnt = @ + 1,
                            !.gen_progress = r.progress]
      /\ UNCHANGED <<dr, npeers, rd, st, g, quiet, piece_idx, dvars, jobq, resq, wvars>>

\* while let Some(Some(req)) = rx.recv().await: a request starts a round, a
\* None ends the loop, and so does the end of the channel.
PieceRecv ==
  /\ call.fn = "download_piece"
  /\ call.ppc = "recv"
  /\ IF call.chan # <<>>
     THEN IF Head(call.chan).some
          THEN call' = [call EXCEPT !.chan = Tail(@), !.ppc = "round",
                                    !.requested = Append(@, Head(call.chan))]
          ELSE call' = [call EXCEPT !.chan = Tail(@), !.ppc = "close", !.nones = @ + 1]
     ELSE /\ call.gpc = "exited"
          /\ call' = [call EXCEPT !.ppc = "close"]
  /\ UNCHANGED <<dr, npeers, rd, st, g, quiet, piece_idx, dvars, jobq, resq, wvars>>

\* stream.write_all(&payload).await? and reader.from_stream(stream).await?
\* with the match on the message: a block is appended, or the function
\* returns an error or panics in the decoder, and rx is dropped. A peer that
\* has stopped answering leaves the read waiting.
PieceRound ==
  /\ call.fn = "download_piece"
  /\ call.ppc = "round"
  /\ call.quiet_after # call.blocks
  /\ \/ call' = [call EXCEPT !.ppc = "recv", !.blocks = @ + 1]
     \/ call' = [call EXCEPT !.ppc = "err", !.rx = "dropped"]
     \/ call' = [call EXCEPT !.ppc = "panicked", !.rx = "dropped"]
  /\ UNCHANGED <<dr, npeers, rd, st, g, quiet, piece_idx, dvars, jobq, resq, wvars>>

\* rx.close(), the comparison of the hashes and the return, which drops rx.
PieceClose ==
  /\ call.fn = "download_piece"
  /\ call.ppc = "close"
  /\ \/ call' = [call EXCEPT !.ppc = "ok", !.rx = "closed"]
     \/ call' = [call EXCEPT !.ppc = "err", !.rx = "closed"]
  /\ UNCHANGED <<dr, npeers, rd, st, g, quiet, piece_idx, dvars, jobq, resq, wvars>>

QueueNext == GenSend \/ PieceRecv \/ PieceRound \/ PieceClose

\* The runtime runs both tasks whenever they can take a step.
QueueSpec == QueueInit /\ [][QueueNext]_vars /\ WF_vars(QueueNext)

\* ------------------------------------------------------------ properties
Written(i) == \E k \in 1..Len(writes) : writes[k].idx = i
AllWritten == \A i \in 0..(dr.n - 1) : Written(i)
Failed(w) == pc[w] \in {"exit_err", "panicked"}
InJobQueue(j) == \E k \in 1..Len(jobq) : jobq[k].idx = j.idx
Sent(w, what) == \E k \in 1..Len(wire[w]) : wire[w][k] = <<"out", what>>

\* C1: download_file returns Ok only when the number of pieces written is n and
\* every piece index 0..n-1 has been written; when it has returned and every
\* worker has exited with no piece written, it has returned an error.
C1_OkOnlyWhenAllWritten ==
  /\ dpc = "ok" => Len(writes) = dr.n /\ AllWritten
  /\ (Returned /\ AllWorkersGone /\ writes = <<>>) => dpc = "err"

C1_Witness ==
  /\ dpc = "ok"
  /\ dr.n = 2
  /\ npeers = 2
  /\ taken[1] # {}
  /\ taken[2] # {}

\* C2: no piece index is written to the output twice, whatever the
\* interleaving of the workers.
C2_NoIndexWrittenTwice ==
  \A j, k \in 1..Len(writes) : j # k => writes[j].idx # writes[k].idx

C2_Witness ==
  /\ Len(writes) = 2
  /\ npeers = 2
  /\ taken[1] = {1}
  /\ taken[2] = {0}

\* C3 as stated: a worker that failed while downloading a piece job (socket
\* error, unexpected message, hash mismatch) has put that job back: the job is
\* in the job channel again, or another worker has received it.
C3_JobPutBack ==
  \A w \in Workers :
    (pc[w] = "exit_err" /\ cause[w] \in {"download", "hash"})
      => \/ InJobQueue(job[w])
         \/ \E v \in Workers \ {w} : job[w].idx \in taken[v]

\* C3 amended: a worker that failed while downloading a piece job has exited
\* without putting the job back: the job is not in the job channel and no
\* other worker has ever received it.
C3_JobDropped ==
  \A w \in Workers :
    (Failed(w) /\ cause[w] \in {"download", "hash"})
      => /\ ~InJobQueue(job[w])
         /\ \A v \in Workers \ {w} : job[w].idx \notin taken[v]

C3_Witness ==
  \E w, v \in Workers :
    /\ pc[w] = "exit_err"
    /\ cause[w] = "hash"
    /\ pc[v] = "exit_ok"
    /\ taken[v] # {}
    /\ jobq = <<>>

\* C4 as stated: when download_file has returned, one worker failed during
\* session setup and the other workers delivered every piece, the result is Ok.
C4_SetupFailureTolerated ==
  ( /\ Returned
    /\ AllWritten
    /\ \E w \in Workers : cause[w] = "setup"
    /\ \A w \in Workers : cause[w] # "setup" => pc[w] = "exit_ok" )
  => dpc = "ok"

\* C4 amended: when a worker failed during session setup, download_file does
\* not return Ok: once it has returned, the result is an error, also when the
\* other workers delivered every piece.
C4_SetupFailureReported ==
  \A w \in Workers : (cause[w] = "setup" /\ Returned) => dpc = "err"

C4_Witness ==
  /\ dpc = "err"
  /\ AllWritten
  /\ \E w \in Workers : cause[w] = "setup"
  /\ \A w \in Workers : cause[w] # "setup" => pc[w] = "exit_ok"

\* C5: every piece in the result channel and every piece written hashes to the
\* expected hash of its piece index; a job whose download ended in a hash
\* mismatch has no piece in the result channel and none written.
C5_OnlyVerifiedPieces ==
  /\ \A k \in 1..Len(resq) :
       Hash(resq[k].data) = dr.pieces[resq[k].piece.idx + 1]
  /\ \A k \in 1..Len(writes) :
       Hash(writes[k].data) = dr.pieces[writes[k].idx + 1]
  /\ \A w \in Workers :
       cause[w] = "hash"
         => /\ ~Written(job[w].idx)
            /\ \A k \in 1..Len(resq) : resq[k].piece.idx # job[w].idx

C5_Witness ==
  /\ \E w \in Workers : cause[w] = "hash" /\ job[w].idx = 1
  /\ Written(0)

\* C6: every piece is written at offset piece_index * P, and after a
\* successful download the output is the pieces in piece-index order, that is
\* the bytes 0 .. L-1 of the file, whatever the order of arrival.
C6_PiecesInPlace ==
  /\ \A k \in 1..Len(writes) : writes[k].at = writes[k].idx * dr.piece_length
  /\ dpc = "ok" => file = Ext("file", 0, dr.length)

C6_Witness ==
  /\ dpc = "ok"
  /\ Len(writes) = 2
  /\ writes[1].idx = 1
  /\ writes[2].idx = 0

\* C7: on the socket of a session the local handshake comes first, interested
\* is written only after a bitfield was read, no request is written before
\* unchoke was read, and a session that writes a request went through
\* handshake, bitfield, interested, unchoke in this order.
C7_SessionOrder ==
  \A w \in Workers :
    LET s == wire[w]
    IN  /\ s # <<>> => s[1] = <<"out", "handshake">>
        /\ \A k \in 1..Len(s) :
             s[k] = <<"out", "interested">>
               => \E j \in 1..(k - 1) : s[j] = <<"in", "Bitfield">>
        /\ \A k \in 1..Len(s) :
             s[k] = <<"out", "request">>
               => /\ \E j \in 1..(k - 1) : s[j] = <<"in", "Unchoke">>
                  /\ k > 5
                  /\ SubSeq(s, 1, 5) = << <<"out", "handshake">>, <<"in", "handshake">>,
                                          <<"in", "Bitfield">>, <<"out", "interested">>,
                                          <<"in", "Unchoke">> >>

C7_Witness ==
  \E w \in Workers : Sent(w, "request") /\ pc[w] = "exit_ok"

\* The index in s of the first message read after the event e, 0 if none.
FirstReadAfter(s, e) ==
  IF \E k \in 1..(Len(s) - 1) : s[k] = e
  THEN (CHOOSE k \in 1..(Len(s) - 1) : s[k] = e /\ \A j \in 1..(k - 1) : s[j] # e) + 1
  ELSE 0

\* setup_peer returned an error to the worker task, which ended with it: the
\* session never was ready, took no job and wrote no request.
SetupRejected(w) ==
  /\ pc[w] = "exit_err"
  /\ cause[w] = "setup"
  /\ taken[w] = {}
  /\ job[w] = NoPiece
  /\ ~Sent(w, "request")

\* C8: when the first message read after the handshake is not bitfield, or the
\* first message read after interested is not unchoke, setup_peer has returned
\* an error: the session is not ready, took no job and wrote no request.
C8_DeviationEndsSession ==
  \A w \in Workers :
    LET s == wire[w]
        b == FirstReadAfter(s, <<"in", "handshake">>)
        u == FirstReadAfter(s, <<"out", "interested">>)
    IN  /\ (b > 0 /\ s[b] # <<"in", "Bitfield">>) => SetupRejected(w)
        /\ (u > 0 /\ s[u] # <<"in", "Unchoke">>) => SetupRejected(w)

\* The remote handshake agrees with the local one in the protocol string
\* (bytes 0..20) and in the info-hash (bytes 28..48).
HandshakeAgrees(data) ==
  LET mine == Handshake_to_bytes(InfoHash, ClientId)
  IN  /\ SubSeq(data, 1, 20) = SubSeq(mine, 1, 20)
      /\ SubSeq(data, 29, 48) = SubSeq(mine, 29, 48)

\* C9: a session that read a remote handshake differing from the local one in
\* a byte of the protocol string or of the info-hash has ended with an error,
\* and does not go on to read the bitfield.
C9_MismatchRejected ==
  \A w \in Workers :
    (buf[w] # NoBuf /\ ~HandshakeAgrees(buf[w])) => pc[w] = "exit_err"

Accepted(msg) == msg.kind \notin {"none", "Err", "Panic"}

\* C10 as stated: the decoder accepts the ids 5, 4, 0, 1 and 7 (with the
\* payload of a well-formed message) and returns an error for any other id.
C10_AcceptedIds ==
  (rd.msg # NoMessage /\ payload_len(rd.len) <= MAX_PAYLOAD_LEN)
    => /\ (rd.id \in {0, 1, 4, 5} \/ (rd.id = 7 /\ ByteLen(rd.payload) >= 8))
            => Accepted(rd.msg)
       /\ rd.id \notin {0, 1, 4, 5, 7} => rd.msg.kind = "Err"

\* C10 amended: the decoder accepts the ids 1 (unchoke), 2 (interested),
\* 5 (bitfield) and 7 (piece, with a payload of at least 8 bytes), and returns
\* an error for any other id, among them 0 (choke), 4 (have) and 6 (request).
C10_DecodedIds ==
  (rd.msg # NoMessage /\ payload_len(rd.len) <= MAX_PAYLOAD_LEN)
    => /\ rd.id = 1 => rd.msg.kind = "Unchoke"
       /\ rd.id = 2 => rd.msg.kind = "Interested"
       /\ rd.id = 5 => rd.msg.kind = "Bitfield"
       /\ (rd.id = 7 /\ ByteLen(rd.payload) >= 8) => rd.msg.kind = "Piece"
       /\ rd.id \notin {1, 2, 5, 7} => rd.msg.kind = "Err"

C10_Witness ==
  /\ rd.id = 2
  /\ rd.len = 1
  /\ rd.msg.kind = "Interested"

\* The first frame after frame i that is not a keep-alive, 0 if there is none.
MessageAfter(frames, i) ==
  IF \E j \in (i + 1)..Len(frames) : frames[j] # KeepAlive
  THEN CHOOSE j \in (i + 1)..Len(frames) :
         /\ frames[j] # KeepAlive
         /\ \A k \in (i + 1)..(j - 1) : frames[k] = KeepAlive
  ELSE 0

\* C11: a read that starts at a keep-alive frame which a message follows
\* returns that message, decoded as the reader decodes it on a stream without
\* the keep-alive, and leaves the stream at the end of that message: the
\* keep-alive took its own 4 bytes and nothing else.
C11_KeepAliveIgnored ==
  \A k \in 1..Len(st.reads) : \A i \in 1..Len(st.frames) :
    LET j == MessageAfter(st.frames, i)
    IN  ( /\ st.frames[i] = KeepAlive
          /\ st.reads[k].from = FrameStart(st.frames, i)
          /\ j > 0 )
        => LET alone == read_at(st.frames[j], 0)
           IN  /\ st.reads[k].kind = alone.kind
               /\ st.reads[k].block = alone.block
               /\ st.reads[k].to = FrameStart(st.frames, j + 1)

\* The requests written on a session's socket, and the messages read from it
\* after the first request.
RequestsWritten(s) == {k \in 1..Len(s) : s[k] = <<"out", "request">>}
AnswersRead(s) ==
  {k \in 1..Len(s) : s[k][1] = "in" /\ \E j \in RequestsWritten(s) : j < k}

\* C12: a session has at most one request written whose answer is not read,
\* what follows a request on the socket is a read, and a further request is
\* written only after a piece message was read in answer to the one before.
C12_OneRequestAtATime ==
  \A w \in Workers :
    LET s == wire[w]
    IN  /\ Cardinality(RequestsWritten(s)) - Cardinality(AnswersRead(s)) \in {0, 1}
        /\ \A k \in RequestsWritten(s) :
             /\ k < Len(s) => s[k + 1][1] = "in"
             /\ (\E j \in RequestsWritten(s) : j > k) => s[k + 1] = <<"in", "Piece">>

C12_Witness ==
  \E w \in Workers :
    /\ pc[w] = "send"
    /\ Cardinality(RequestsWritten(wire[w])) = 2
    /\ Cardinality(AnswersRead(wire[w])) = 2

\* The number of bytes asked for by the requests of the job of w that have
\* been answered.
BytesAnswered(w) ==
  IF pc[w] = "response" THEN cur_req[w].begin
  ELSE IF progress[w] < job[w].len THEN progress[w] ELSE job[w].len

\* C13: a piece message whose block has another length than the request it
\* answers is not appended to the piece being assembled: the session goes on
\* only with piece_data holding exactly the bytes of the blocks asked for.
C13_LengthMismatchRejected ==
  \A w \in Workers :
    (pc[w] \in {"request", "response", "send"})
      => ByteLen(piece_data[w]) = BytesAnswered(w)

RECURSIVE SumOfLengths(_)
SumOfLengths(calls) ==
  IF calls = <<>> THEN 0 ELSE calls[1].length + SumOfLengths(Tail(calls))

\* C14: the k-th request of the generator has the offset (k-1)*B and the
\* piece's index; its length is B when another request follows and lies in
\* 1..B otherwise; after a None every call returns None; and once None was
\* returned the lengths sum to the piece length (two requests for 32768, one
\* of length 6241 for 6241).
C14_BlocksPartitionPiece ==
  LET calls == g.calls
      reqs == {k \in 1..Len(calls) : calls[k].some}
  IN  /\ \A k \in reqs :
           /\ calls[k].begin = (k - 1) * BLOCK_SIZE
           /\ calls[k].index = g.piece_idx
           /\ calls[k].length \in 1..BLOCK_SIZE
           /\ (k + 1) \in reqs => calls[k].length = BLOCK_SIZE
      /\ \A j, k \in 1..Len(calls) : (j < k /\ ~calls[j].some) => ~calls[k].some
      /\ SumOfLengths(calls) <= g.piece_len
      /\ NonesReturned(calls) > 0 =>
           /\ SumOfLengths(calls) = g.piece_len
           /\ g.piece_len = 2 * BLOCK_SIZE => Cardinality(reqs) = 2
           /\ g.piece_len = 6241 =>
                (Cardinality(reqs) = 1 /\ calls[1].length = 6241)

C14_Witness ==
  /\ g.piece_len = 2 * BLOCK_SIZE + 6241
  /\ Len(g.calls) = 5
  /\ g.calls[3].length = 6241
  /\ ~g.calls[5].some

\* C15: every piece job, in the job channel or held by a session, has the
\* length of its own piece: piece_length, and last_piece_len for the last
\* index. It is stated for the jobs of download_file and for the job of
\* perform_download_piece.
C15_JobHasPieceLength ==
  /\ \A k \in 1..Len(jobq) : jobq[k].len = ByteLen(PieceBytes(dr, jobq[k].idx))
  /\ \A w \in Workers :
       job[w] # NoPiece => job[w].len = ByteLen(PieceBytes(dr, job[w].idx))

\* The piece indexes of the jobs received so far, by any worker.
Dequeued == UNION {taken[w] : w \in Workers}

\* C16: the jobs are enqueued one per piece in ascending index order (the
\* channel holds the indexes up to idx - 1 in order, and idx is n once the
\* sender is closed); the jobs received so far are those of the first
\* indexes, so the k-th job received is the job of the k-th piece; and no job
\* is received by two workers.
C16_JobQueueFifo ==
  /\ idx <= dr.n
  /\ dpc \in {"create", "drain", "join", "ok"} => idx = dr.n
  /\ \A k \in 1..Len(jobq) : jobq[k].idx = idx - Len(jobq) + k - 1
  /\ Dequeued = 0..(idx - Len(jobq) - 1)
  /\ \A w, v \in Workers : w # v => taken[w] \cap taken[v] = {}

C16_Witness ==
  /\ npeers = 2
  /\ idx = 2
  /\ jobq = <<>>
  /\ taken[1] = {0}
  /\ taken[2] = {1}

\* C17: the result channel never holds more than 10 pieces, and while a
\* worker waits to send on the full channel it receives no job, writes nothing
\* to its socket and keeps the piece it holds, until the send completes or
\* fails.
C17_ResultChannelBounded ==
  /\ [](Len(resq) <= RESULT_CHANNEL_CAPACITY)
  /\ [][ \A w \in Workers :
            (pc[w] = "send" /\ Len(resq) >= RESULT_CHANNEL_CAPACITY)
              => /\ pc'[w] \in {"send", "exit_err"}
                 /\ taken'[w] = taken[w]
                 /\ wire'[w] = wire[w]
                 /\ job'[w] = job[w]
                 /\ pc'[w] = "exit_err" => Returned ]_vars

C17_Witness ==
  /\ Len(resq) = RESULT_CHANNEL_CAPACITY
  /\ \E w \in Workers : pc[w] = "send"
  /\ jobq # <<>>
  /\ ~Returned

\* Where the task of worker w is, "none" if there is no such worker.
PcOf(w) == IF w \in Workers THEN pc[w] ELSE "none"
QuietOf(w) == IF w \in Workers THEN quiet[w] ELSE "never"

\* C18: with at least one peer, every peer answering correctly and fair
\* scheduling, every worker that is ready when the job channel is empty and
\* closed exits, and download_file eventually returns Ok with all n pieces
\* written and every worker task ended with Ok.
C18_DownloadCompletes ==
  /\ \A w \in 1..MaxPeers :
       (PcOf(w) = "ready" /\ jobq = <<>> /\ JobChannelClosed) ~> (PcOf(w) = "exit_ok")
  /\ <>(dpc = "ok" /\ AllWritten /\ \A w \in Workers : pc[w] = "exit_ok")

C18_Witness ==
  /\ dpc = "ok"
  /\ AllWritten
  /\ npeers = 2
  /\ dr.n = 2
  /\ \E w \in Workers : taken[w] = {0, 1}

\* C19: a session whose peer has stopped sending bytes eventually ends with
\* an error, and download_file eventually returns.
C19_SilentPeerEnds ==
  /\ \A w \in 1..MaxPeers : (QuietOf(w) = PcOf(w)) ~> (PcOf(w) = "exit_err")
  /\ <>Returned

\* C20: a frame whose payload length (the length prefix less the id byte) is
\* above 1 048 576 is refused with an error and none of its payload bytes is
\* read; a frame whose payload length is at most 1 048 576 has its whole
\* payload read and is decoded by its id, with no error on account of its size.
C20_PayloadCap ==
  rd.msg # NoMessage
    => LET pl == IF rd.len = 0 THEN 0 ELSE rd.len - 1
       IN  /\ pl > 1048576 => (rd.msg.kind = "Err" /\ rd.msg.read = 0)
           /\ pl <= 1048576 =>
                /\ rd.msg.read = pl
                /\ rd.msg.kind = PeerMessage_from_bytes(rd.id, rd.payload).kind

C20_Witness ==
  /\ rd.len = 1048577
  /\ rd.msg.kind = "Piece"
  /\ rd.msg.read = 1048576

\* A request message was encoded.
RequestEncoded == call.fn = "to_bytes" /\ call.done /\ call.msg.kind = "Request"

\* C21: the encoded request message is a frame of exactly 17 bytes: a 4-byte
\* big-endian length prefix equal to 13, the id byte 6, then index, begin and
\* length as three big-endian 32-bit unsigned integers.
C21_RequestFrame ==
  RequestEncoded =>
    /\ Len(call.out) = 17
    /\ SubSeq(call.out, 1, 4) = <<0, 0, 0, 13>>
    /\ call.out[5] = 6
    /\ from_be_bytes(SubSeq(call.out, 6, 9)) = call.msg.index
    /\ from_be_bytes(SubSeq(call.out, 10, 13)) = call.msg.begin
    /\ from_be_bytes(SubSeq(call.out, 14, 17)) = call.msg.length

\* "BitTorrent protocol" in ASCII.
BitTorrentProtocol ==
  <<66, 105, 116, 84, 111, 114, 114, 101, 110, 116, 32, 112, 114, 111, 116, 111, 99, 111, 108>>

\* C22: the encoded handshake has exactly 68 bytes: byte 0 is 19, bytes 1..20
\* are "BitTorrent protocol", bytes 20..28 are zero, bytes 28..48 are the
\* info-hash and bytes 48..68 the peer id (byte i is element i + 1, ranges
\* exclude their end); parsing 68 bytes returns bytes 28..48 as the info-hash
\* and bytes 48..68 as the peer id.
C22_HandshakeLayout ==
  call.fn = "handshake" =>
    /\ call.bytes # <<>> =>
         /\ Len(call.bytes) = 68
         /\ call.bytes[1] = 19
         /\ \A i \in 1..19 : call.bytes[1 + i] = BitTorrentProtocol[i]
         /\ \A i \in 20..27 : call.bytes[1 + i] = 0
         /\ \A i \in 28..47 : call.bytes[1 + i] = call.info_hash[i - 27]
         /\ \A i \in 48..67 : call.bytes[1 + i] = call.peer_id[i - 47]
    /\ call.data # <<>> =>
         /\ call.parsed.ok
         /\ Len(call.parsed.info_hash) = 20
         /\ Len(call.parsed.peer_id) = 20
         /\ \A i \in 28..47 : call.parsed.info_hash[i - 27] = call.data[1 + i]
         /\ \A i \in 48..67 : call.parsed.peer_id[i - 47] = call.data[1 + i]

\* A handshake was encoded, and 68 bytes that differ from it in the first byte
\* of the peer id were parsed.
C22_Witness ==
  /\ call.fn = "handshake"
  /\ call.data # <<>>
  /\ call.parsed.info_hash = call.info_hash
  /\ call.parsed.peer_id # call.peer_id
  /\ call.parsed.peer_id[1] = call.data[49]

\* decode has returned for the input.
Decoded == call.fn = "decode" /\ call.done

\* The input is "i<numeral>e".
IntegerText(t) == Len(t) >= 2 /\ t[1] = "i" /\ t[Len(t)] = "e"
NumeralOf(t) == SubSeq(t, 2, Len(t) - 1)

\* No digits, negative zero, or a leading zero that is not the literal 0.
BadNumeral(n) ==
  IF n = <<>> \/ n = <<"-">> THEN TRUE
  ELSE IF n[1] = "0" THEN Len(n) > 1
  ELSE n[1] = "-" /\ n[2] = "0"

\* C23: the integer parser returns an error for i-0e, i03e, i-e and ie, and
\* for every integer that is a negative zero or has a leading zero other than
\* the literal 0.
C23_BadIntegerRejected ==
  (Decoded /\ IntegerText(call.input) /\ BadNumeral(NumeralOf(call.input)))
    => ~call.out.ok

\* The whole text of a term was decoded; the term is an encoding of a value
\* in which no dictionary has a key twice.
Whole == Decoded /\ call.cut = Len(call.term.text)
WellFormedTerm == call.term.value[1] # "None" /\ ~call.term.dup

\* C24: for a well-formed list or dictionary decode returns the value the
\* text stands for: the items of a list in the order of the input, the
\* entries of a dictionary under their keys, and a nested list or dictionary
\* as one item or one entry's value.
C24_StructurePreserved ==
  (Whole /\ WellFormedTerm /\ call.term.value[1] \in {"Array", "Object"})
    => (call.out.ok /\ call.out.value = call.term.value)

\* C25: when decode succeeds, the consumed count is not larger than the input
\* and, for the text of a value, it is the length of the text; a text cut
\* before the "e" that ends an integer, a list or a dictionary is rejected.
C25_ConsumedCount ==
  Decoded =>
    /\ call.out.ok => call.out.length <= Len(call.input)
    /\ (call.out.ok /\ WellFormedTerm /\ call.cut = Len(call.term.text))
         => call.out.length = Len(call.term.text)
    /\ (WellFormedTerm /\ call.cut \in 1..(Len(call.term.text) - 1)
          /\ call.term.value[1] \in {"Number", "Array", "Object"})
         => ~call.out.ok

\* The text is a dictionary whose keys are distinct and not in sorted order.
Unsorted ==
  /\ call.term.value[1] = "Object"
  /\ ~call.term.dup
  /\ DOMAIN call.term.value[2] = {<<"a">>, <<"b">>}
  /\ call.term.text[4] = "b"

\* C26: a dictionary in which a key occurs twice is rejected; a dictionary
\* whose keys are distinct and unsorted is accepted.
C26_DuplicateKeyRejected ==
  Whole => /\ call.term.dup => ~call.out.ok
           /\ Unsorted => call.out.ok

\* The input is "<len>:<bytes>", with len in decimal digits.
StringText(t) == ColonAt(t) > 1 /\ AllDigits(SubSeq(t, 1, ColonAt(t) - 1))
DeclaredLen(t) == DigitsValue(SubSeq(t, 1, ColonAt(t) - 1))
AfterColon(t) == SubSeq(t, ColonAt(t) + 1, Len(t))

\* C27: a string whose declared length is larger than the number of bytes
\* after the colon is rejected; an accepted string is the first len bytes
\* after the colon.
C27_StringLength ==
  (Decoded /\ StringText(call.input)) =>
    /\ DeclaredLen(call.input) > Len(AfterColon(call.input)) => ~call.out.ok
    /\ call.out.ok =>
         /\ call.out.value[1] = "String"
         /\ Len(call.out.value[2]) = DeclaredLen(call.input)
         /\ \A k \in 1..DeclaredLen(call.input) :
              call.out.value[2][k] = AfterColon(call.input)[k]

\* "3:ab" was rejected.
C27_Witness ==
  /\ Decoded
  /\ call.input = <<"3", ":", "a", "b">>
  /\ ~call.out.ok

\* C28: a compact peer list of 6k bytes is parsed into k endpoints in the
\* order of the input, endpoint i with the address of the first 4 bytes of
\* record i and the port of its last 2 bytes, big-endian; a list whose length
\* is no multiple of 6 gives an error and no peers.
C28_CompactPeers ==
  (call.fn = "from_peer_response" /\ call.done) =>
    LET len == Len(call.peers)
    IN  IF len % 6 = 0
        THEN /\ call.out.ok
             /\ Len(call.out.peers) = len \div 6
             /\ \A i \in 1..(len \div 6) :
                  /\ call.out.peers[i].ip = SubSeq(call.peers, 6 * i - 5, 6 * i - 2)
                  /\ call.out.peers[i].port
                       = call.peers[6 * i - 1] * 256 + call.peers[6 * i]
        ELSE ~call.out.ok /\ call.out.peers = <<>>

\* Two different records were parsed into two endpoints.
C28_Witness ==
  /\ call.fn = "from_peer_response"
  /\ call.done
  /\ Len(call.peers) = 12
  /\ Len(call.out.peers) = 2
  /\ call.out.peers[1].port = 6881
  /\ call.out.peers[2].port = 80

\* ceil(L / P)
CeilDiv(L, P) == (L + P - 1) \div P

\* C29: a torrent model is built only if the number of 20-byte piece hashes
\* is ceil(L / P), so that n = ceil(L / P) and the last piece has a length
\* of 1..P.
C29_PieceCountChecked ==
  (call.fn = "Meta::parse" /\ call.done /\ call.out.ok) =>
    LET L == call.out.length
        P == call.out.piece_length
        n == CeilDiv(L, P)
    IN  /\ Len(call.out.pieces_data) = 20 * n
        /\ L - (n - 1) * P \in 1..P

\* Worker w waits in result_tx.send on the full result channel.
BlockedOnResults(w) == PcOf(w) = "send" /\ ~HasCapacity(resq)

\* C30: download_file does not deadlock: the job channel is never full when
\* the dispatcher sends a job, so the enqueue loop can always take its next
\* step; a worker that waits on the full result channel is eventually
\* released; and as long as download_file has not returned, the dispatcher or
\* a worker can take a step.
C30_NoDeadlock ==
  /\ []((dpc = "enqueue" /\ idx < dr.n) => (Len(jobq) < dr.n /\ ENABLED Enqueue))
  /\ \A w \in 1..BusyPeers : BlockedOnResults(w) ~> ~BlockedOnResults(w)
  /\ [](~Returned => ENABLED Next)

\* A worker waits on the full result channel while the dispatcher is still
\* in its enqueue loop.
C30_Witness ==
  /\ dpc = "enqueue"
  /\ idx < dr.n
  /\ \E w \in Workers : pc[w] = "send" /\ Len(resq) = RESULT_CHANNEL_CAPACITY

\* The pieces worker w has sent on the result channel: the jobs it received,
\* but for the one it still holds.
SentPieces(w) == {i \in taken[w] : job[w].idx # i}

\* No worker task runs, the result channel is empty and every piece that was
\* sent is written.
LoopComplete ==
  /\ AllWorkersGone
  /\ resq = <<>>
  /\ \A w \in Workers : \A i \in SentPieces(w) : Written(i)

\* C31: the result loop of download_file ends only when every worker task has
\* ended and the result channel is empty; every piece a worker sent is
\* written before download_file looks at the workers' results, and no worker
\* runs when download_file returns after a completed result loop.
C31_ResultLoopComplete ==
  /\ [][(dpc = "drain" /\ dpc' = "join") => (AllWorkersGone /\ resq = <<>>)]_vars
  /\ [](dpc \in {"join", "ok"} => LoopComplete)
  /\ [][(dpc = "join" /\ dpc' \in {"ok", "err"}) => LoopComplete']_vars

\* download_file looks at the worker results after a loop that wrote a piece
\* of one worker while another worker had failed.
C31_Witness ==
  /\ dpc = "join"
  /\ npeers = 2
  /\ \E w \in Workers : Failed(w)
  /\ \E w \in Workers : pc[w] = "exit_ok" /\ SentPieces(w) # {}

\* The state of download_piece and of its generator task, when there is one.
QueueOf == IF call.fn = "download_piece" THEN call
           ELSE [ppc |-> "none", gpc |-> "none", nones |-> 0, requested |-> <<>>]

\* C32: the generator task of a piece ends on every way download_piece ends
\* (all blocks received, socket error, unexpected message, hash mismatch);
\* download_piece does not wait forever on the generator; and it writes no
\* request after the first None it receives.
C32_GeneratorTerminates ==
  /\ PieceEnded(QueueOf) ~> (QueueOf.gpc = "exited")
  /\ (QueueOf.ppc = "recv") ~> (QueueOf.ppc # "recv")
  /\ [](QueueOf.nones <= 1)
  /\ [][QueueOf.nones = 1 => QueueOf.requested' = QueueOf.requested]_vars

\* download_piece returned Ok after three requests, and the generator task
\* ended after it had produced Nones that nobody received.
C32_Witness ==
  /\ call.fn = "download_piece"
  /\ call.ppc = "ok"
  /\ call.gpc = "exited"
  /\ Len(call.requested) = 3
  /\ call.req_cnt > 5

\* C33: every frame read from a peer gives a decoded message or an error and
\* never a crash; a piece message (id 7) whose payload is shorter than the 8
\* bytes of index and begin gives an error, and one of 8 header bytes and
\* k <= 16384 block bytes is accepted with those k bytes as its block.
C33_NoCrash ==
  (rd.msg # NoMessage /\ rd.id = 7 /\ rd.len > 0 /\ ByteLen(rd.payload) = rd.len - 1)
    => /\ rd.msg.kind # "Panic"
       /\ rd.len - 1 < 8 => rd.msg.kind = "Err"
       /\ (rd.len - 1 >= 8 /\ rd.len - 1 <= 8 + BLOCK_SIZE)
            => (rd.msg.kind = "Piece" /\ rd.msg.block = DropB(rd.payload, 8))

====
